---- MODULE Spec2Model ----
(***************************************************************************)
(* A model of the ingestion pipeline of functions/index.js: the fetch      *)
(* client (fetchJson), the create-only job writes (createJobIfNew,         *)
(* processOneFeed), the run orchestrator (processUserFeeds), the enqueue   *)
(* helpers and the task handlers, with the run-record state machine.       *)
(***************************************************************************)
EXTENDS Integers, Sequences, FiniteSets, TLC

\* ------------------------------------------------------------------ CONFIG
FEED_CONCURRENCY == 3
JOB_WRITE_CONCURRENCY == 25
FETCH_TIMEOUT_MS == 60000
FETCH_RETRIES == 2
FETCH_RETRY_BASE_DELAY_MS == 800
FETCH_JITTER_MS == 250
UPDATE_WINDOW_MS == 3600000
RETENTION_WINDOW_MS == 1814400000
CLEANUP_QUERY_LIMIT == 400
MAX_ERROR_SAMPLES == 10
MAX_SNIPPET_CHARS == 300
MAX_HTML_CHARS == 120000
WRITE_MAX_FAILED_ATTEMPTS == 3
TASK_MAX_ATTEMPTS == 3

\* ------------------------------------------------------------------ bounds
\* How far the clock may advance past its initial value.
MaxTicks == 1
\* How many trigger invocations (callable calls, scheduler enqueues) are followed.
MaxCalls == 2
\* The count of queued deletes up to which the page loop of a long cleanup is
\* followed while it runs ahead of the writer.
MaxDeleted == 800
\* How often the model lets the batched writer send one create again.
MaxResends == 3
\* How many items the metadata of a job has at most.
MaxItems == 2
\* How many pieces the content of a job has at most.
MaxPieces == 3

VARIABLES
    now,        \* the wall clock / server time, in ms
    fx,         \* the state of one fetchJson(url) call
    feedsCol,   \* users/{uid}/feeds: the user's feed documents, in id order
    jobs,       \* users/{uid}/jobs: the set of stored job documents
    companies,  \* users/{uid}/companies: the set of company summary documents
    fetchRuns,  \* users/{uid}/fetchRuns: run id -> run record
    tasks,      \* the task queues: run id -> the task enqueued for it
    inv,        \* run id -> the running invocation of its task handler
    resp        \* the latest trigger invocation (callable or scheduler) and its caller

vars == <<now, fx, feedsCol, jobs, companies, fetchRuns, tasks, inv, resp>>

dbVars == <<feedsCol, jobs, companies, fetchRuns, tasks, inv>>

\* ------------------------------------------------------------------ texts
\* A text is known by its content name, its length and the 1-based position
\* of a connection-error token (ECONNRESET, ETIMEDOUT, EAI_AGAIN, ENOTFOUND,
\* any letter case) in it, 0 when it holds none.
NetTokenLen == 9

Text(t, n, p) == [txt |-> t, len |-> n, tok |-> p]

\* String.prototype.slice(0, n)
SliceTo(t, n) ==
    [txt |-> t.txt,
     len |-> IF t.len <= n THEN t.len ELSE n,
     tok |-> IF t.tok > 0 /\ t.tok + NetTokenLen - 1 <= n THEN t.tok ELSE 0]

\* /ECONNRESET|ETIMEDOUT|EAI_AGAIN|ENOTFOUND/i.test(String(err.message))
MatchesNetPattern(msg) == \E i \in DOMAIN msg : msg[i].tok > 0

\* ------------------------------------------------------------------ TIME
\* The clock's initial value; instants are in ms.
T0 == RETENTION_WINDOW_MS + UPDATE_WINDOW_MS

\* The update-window cutoff at T0.
W0 == T0 - UPDATE_WINDOW_MS

Null == 0 - 1

\* An ISO timestamp string: one that Date.parse reads as the instant ms, or
\* one it does not read (missing, empty, malformed).
Iso(ms) == [valid |-> TRUE, ms |-> ms]
NoIso   == [valid |-> FALSE, ms |-> 0]

parseIsoToMs(iso) == IF iso.valid THEN iso.ms ELSE Null

isJobWithinUpdateWindow(source, jobRaw, nowMs) ==
    LET cutoffMs == nowMs - UPDATE_WINDOW_MS
    IN  IF source = "greenhouse"
        THEN LET updatedMs  == parseIsoToMs(jobRaw.updated_at)
                 firstPubMs == parseIsoToMs(jobRaw.first_published)
             IN  IF updatedMs # Null THEN updatedMs >= cutoffMs
                 ELSE firstPubMs # Null /\ firstPubMs >= cutoffMs
        ELSE IF source = "ashby"
        THEN LET pubMs == parseIsoToMs(jobRaw.publishedAt)
             IN  pubMs # Null /\ pubMs >= cutoffMs
        ELSE FALSE

\* updated_at, else first_published, else publishedAt, else the current time
parseUpdatedAtIso(jobRaw, nowMs) ==
    IF jobRaw.updated_at.valid THEN jobRaw.updated_at
    ELSE IF jobRaw.first_published.valid THEN jobRaw.first_published
    ELSE IF jobRaw.publishedAt.valid THEN jobRaw.publishedAt
    ELSE Iso(nowMs)

isoToTimestamp(iso, nowMs) == IF iso.valid THEN iso.ms ELSE nowMs

\* ------------------------------------------------------------------ LOCATION
\* The keyword lists of the configuration (all left empty in index.js).
US_STATE_CODES == {}
US_KEYWORDS == {}
MAJOR_US_CITIES == {}
REMOTE_EXCLUDE_SUBSTRINGS == {}

\* A location text, with what the classifier's substring and token tests find
\* in it: upper = the keywords its upper-case form includes, tokens = the
\* words standing between separators, usWord = /\bUS\b/ matches,
\* lower = the phrases its trimmed lower-case form includes. The keywords
\* and phrases looked for are those of both versions' lists and of
\* ExcludeLists.
Loc(t, up, tk, usw, lo) == [text |-> t, upper |-> up, tokens |-> tk, usWord |-> usw, lower |-> lo]

LocEmpty    == Loc("", {}, {}, FALSE, {})
LocRemoteUS == Loc("Remote - US", {"REMOTE - US"}, {"REMOTE", "US"}, TRUE, {"remote", "remote - us", "us"})
LocLondon   == Loc("London, United Kingdom", {}, {"LONDON", "UNITED", "KINGDOM"}, FALSE, {"united kingdom"})
LocSF       == Loc("San Francisco, CA", {"SAN FRANCISCO"}, {"SAN FRANCISCO", "SAN", "FRANCISCO", "CA"}, FALSE, {})
LocAustin   == Loc("Austin, Texas", {}, {"AUSTIN", "TEXAS"}, FALSE, {"us"})
LocToronto  == Loc("Toronto, Canada", {}, {"TORONTO", "CANADA"}, FALSE, {"canada"})
LocPennycross == Loc("Pennycross, Plymouth", {"NYC"}, {"PENNYCROSS", "PLYMOUTH"}, FALSE, {})
LocRemoteUK == Loc("Remote, United Kingdom", {}, {"REMOTE", "UNITED", "KINGDOM"}, FALSE, {"remote", "united kingdom"})
LocChicago  == Loc("Chicago", {}, {"CHICAGO"}, FALSE, {})
LocSeattle  == Loc("Seattle/Denver", {}, {"SEATTLE", "DENVER"}, FALSE, {})
LocBangalore == Loc("Bangalore, India", {}, {"BANGALORE", "INDIA"}, FALSE, {})
LocRemote   == Loc("Remote", {}, {"REMOTE"}, FALSE, {"remote"})

isUSLocation(loc) ==
    IF loc.text = "" THEN FALSE
    ELSE \/ \E kw \in US_KEYWORDS : kw \in loc.upper
         \/ \E city \in MAJOR_US_CITIES : city \in loc.tokens
         \/ \E code \in US_STATE_CODES : code \in loc.tokens
         \/ loc.usWord
         \/ "U.S." \in loc.upper

\* isRemoteLocation and shouldKeepJobByLocation, for a given content of the
\* configured list REMOTE_EXCLUDE_SUBSTRINGS.
isRemoteLocationWith(loc, exclude) ==
    IF loc.text = "" THEN FALSE
    ELSE IF "remote" \notin loc.lower THEN FALSE
    ELSE IF "us-remote" \in loc.lower \/ "remote us" \in loc.lower \/ "remote - us" \in loc.lower
    THEN TRUE
    ELSE ~(\E bad \in exclude : bad \in loc.lower)

isRemoteLocation(loc) == isRemoteLocationWith(loc, REMOTE_EXCLUDE_SUBSTRINGS)

shouldKeepJobByLocationWith(loc, jobRaw, exclude) ==
    IF jobRaw.isRemote = "true" THEN TRUE
    ELSE isUSLocation(loc) \/ isRemoteLocationWith(loc, exclude)

shouldKeepJobByLocation(loc, jobRaw) ==
    shouldKeepJobByLocationWith(loc, jobRaw, REMOTE_EXCLUDE_SUBSTRINGS)

\* The lists and the classifier of the paged worker (src/unnamed/part_000).
PAGED_US_STATE_CODES ==
    {"AL", "AK", "AZ", "AR", "CA", "CO", "CT", "DE", "FL", "GA", "HI", "ID",
     "IL", "IN", "IA", "KS", "KY", "LA", "ME", "MD", "MA", "MI", "MN", "MS",
     "MO", "MT", "NE", "NV", "NH", "NJ", "NM", "NY", "NC", "ND", "OH", "OK",
     "OR", "PA", "RI", "SC", "SD", "TN", "TX", "UT", "VT", "VA", "WA", "WV",
     "WI", "WY", "DC"}

PAGED_US_KEYWORDS ==
    {"UNITED STATES", "USA", "AMER - US", "USCA", "US-REMOTE", "US REMOTE",
     "REMOTE US", "REMOTE - US", "NYC", "SAN FRANCISCO", "SF-HQ", "US-NATIONAL",
     "WASHINGTON DC", "ANYWHERE IN THE UNITED STATES"}

PAGED_MAJOR_US_CITIES ==
    {"SAN FRANCISCO", "NYC", "NEW YORK CITY", "LOS ANGELES", "CHICAGO",
     "HOUSTON", "PHOENIX", "PHILADELPHIA", "SAN ANTONIO", "SAN DIEGO", "DALLAS",
     "SAN JOSE", "AUSTIN", "JACKSONVILLE", "FORT WORTH", "COLUMBUS",
     "CHARLOTTE", "INDIANAPOLIS", "SEATTLE", "DENVER", "BOSTON", "EL PASO",
     "NASHVILLE", "DETROIT", "OKLAHOMA CITY", "PORTLAND", "LAS VEGAS",
     "MEMPHIS", "LOUISVILLE", "BALTIMORE", "MILWAUKEE", "ALBUQUERQUE", "TUCSON",
     "FRESNO", "SACRAMENTO", "MESA", "KANSAS CITY", "ATLANTA", "OMAHA",
     "COLORADO SPRINGS", "RALEIGH", "LONG BEACH", "VIRGINIA BEACH", "MIAMI",
     "OAKLAND", "MINNEAPOLIS", "TULSA", "BAKERSFIELD", "WICHITA", "ARLINGTON"}

\* The location texts of the model use blank, comma and slash as separators,
\* which the separator classes of both versions contain.
PagedIsUSLocation(loc) ==
    IF loc.text = "" THEN FALSE
    ELSE \/ \E kw \in PAGED_US_KEYWORDS : kw \in loc.upper
         \/ \E city \in PAGED_MAJOR_US_CITIES : city \in loc.tokens
         \/ \E code \in PAGED_US_STATE_CODES : code \in loc.tokens
         \/ loc.usWord
         \/ "U.S." \in loc.upper

\* ------------------------------------------------------------------ RAW JOBS
\* A raw job of a feed. isRemote is "true", "false" or "absent".
RawJob(id, upd, first, pub, loc, rem) ==
    [id |-> id, updated_at |-> upd, first_published |-> first, publishedAt |-> pub,
     location |-> loc, isRemote |-> rem]

\* Job 7, fresh at T0 and T0 + 1, and the same job after an edit.
Job7  == RawJob("7", Iso(W0 + 1), Iso(W0), NoIso, LocRemoteUS, "absent")
Job7e == RawJob("7", Iso(W0 + 2), Iso(W0), NoIso, LocRemoteUS, "absent")
\* A job whose id holds two underscores.
JobC7 == RawJob("c__7", Iso(W0 + 1), Iso(W0), NoIso, LocRemoteUS, "absent")
\* Job 8 has no location.
Job8  == RawJob("8", Iso(T0), NoIso, NoIso, LocEmpty, "absent")
\* Job 9 is outside the US and not remote.
Job9  == RawJob("9", Iso(T0), Iso(T0), NoIso, LocLondon, "absent")

\* ------------------------------------------------------------------ JSON
NoJson == [valid |-> FALSE, shape |-> "none", jobs |-> <<>>]

\* Response.json(): the body text parsed; a body that is no JSON document
\* does not parse.
JsonParse(body) ==
    CASE body.txt = "{jobs:[]}"        -> [valid |-> TRUE, shape |-> "jobs", jobs |-> <<>>]
      [] body.txt = "{jobs:[7]}"       -> [valid |-> TRUE, shape |-> "jobs", jobs |-> <<Job7>>]
      [] body.txt = "{jobs:[7e,8,9]}"  -> [valid |-> TRUE, shape |-> "jobs", jobs |-> <<Job7e, Job8, Job9>>]
      [] body.txt = "{jobs:[7,8]}"     -> [valid |-> TRUE, shape |-> "jobs", jobs |-> <<Job7, Job8>>]
      [] body.txt = "[7]"              -> [valid |-> TRUE, shape |-> "array", jobs |-> <<Job7>>]
      [] body.txt = "{jobs:[c__7]}"    -> [valid |-> TRUE, shape |-> "jobs", jobs |-> <<JobC7>>]
      [] OTHER                         -> NoJson

extractJobsFromFeedJson(source, json) ==
    IF source = "greenhouse" THEN (IF json.shape = "jobs" THEN json.jobs ELSE <<>>)
    ELSE IF source = "ashby"
    THEN (IF json.shape \in {"jobs", "array", "jobBoard"} THEN json.jobs ELSE <<>>)
    ELSE (IF json.shape \in {"jobs", "array"} THEN json.jobs ELSE <<>>)

\* ------------------------------------------------------------------ FEEDS
NoUrl == Text("", 0, 0)

UrlGreenhouse == Text("https://boards-api.greenhouse.io/v1/boards/Acme/jobs", 52, 0)
UrlTokened    == Text("https://boards-api.greenhouse.io/v1/boards/enotfound/jobs", 57, 44)
UrlOther      == Text("https://jobs.example.com/feed.json", 34, 0)
UrlBeta       == Text("https://boards-api.greenhouse.io/v1/boards/beta/jobs", 52, 0)
UrlGamma      == Text("https://boards-api.greenhouse.io/v1/boards/gamma/jobs", 53, 0)
UrlAb         == Text("https://boards-api.greenhouse.io/v1/boards/ab/jobs", 50, 0)
UrlAbC        == Text("https://boards-api.greenhouse.io/v1/boards/ab__c/jobs", 53, 0)
Urls == {UrlGreenhouse, UrlTokened}

\* new URL(feedUrl): the host name and the non-empty path segments.
UrlParts(url) ==
    CASE url = UrlGreenhouse -> [host |-> "boards-api.greenhouse.io", path |-> <<"v1", "boards", "Acme", "jobs">>]
      [] url = UrlTokened    -> [host |-> "boards-api.greenhouse.io", path |-> <<"v1", "boards", "enotfound", "jobs">>]
      [] url = UrlOther      -> [host |-> "jobs.example.com", path |-> <<"feed.json">>]
      [] url = UrlBeta       -> [host |-> "boards-api.greenhouse.io", path |-> <<"v1", "boards", "beta", "jobs">>]
      [] url = UrlGamma      -> [host |-> "boards-api.greenhouse.io", path |-> <<"v1", "boards", "gamma", "jobs">>]
      [] url = UrlAb         -> [host |-> "boards-api.greenhouse.io", path |-> <<"v1", "boards", "ab", "jobs">>]
      [] url = UrlAbC        -> [host |-> "boards-api.greenhouse.io", path |-> <<"v1", "boards", "ab__c", "jobs">>]
      [] OTHER               -> [host |-> "", path |-> <<>>]

\* String.prototype.toLowerCase()
ToLowerCase(str) ==
    CASE str = "Acme" -> "acme"
      [] OTHER        -> str

\* hostname.replaceAll(".", "_")
DotsToUnderscores(str) ==
    CASE str = "jobs.example.com" -> "jobs_example_com"
      [] OTHER                    -> str

detectFeedSource(url) ==
    IF UrlParts(url).host = "boards-api.greenhouse.io" THEN "greenhouse"
    ELSE IF UrlParts(url).host = "api.ashbyhq.com" /\ Len(UrlParts(url).path) >= 2
            /\ UrlParts(url).path[1] = "posting-api" /\ UrlParts(url).path[2] = "job-board"
    THEN "ashby"
    ELSE "unknown"

\* The path segment that follows the segment marker, lower-cased; "" if none.
SegmentAfter(url, marker) ==
    LET parts == UrlParts(url).path
        hits  == {i \in 1..Len(parts) : parts[i] = marker}
    IN  IF hits = {} THEN ""
        ELSE LET idx == CHOOSE i \in hits : \A k \in hits : i <= k
             IN  IF idx + 1 <= Len(parts) THEN ToLowerCase(parts[idx + 1]) ELSE ""

inferGreenhouseCompanyKeyFromUrl(url) == SegmentAfter(url, "boards")

inferAshbyCompanyKeyFromUrl(url) == SegmentAfter(url, "job-board")

feedCompanyKey(feed) ==
    LET source == detectFeedSource(feed.url)
    IN  IF source = "greenhouse"
        THEN (IF inferGreenhouseCompanyKeyFromUrl(feed.url) # ""
              THEN inferGreenhouseCompanyKeyFromUrl(feed.url) ELSE feed.id)
        ELSE IF source = "ashby"
        THEN (IF inferAshbyCompanyKeyFromUrl(feed.url) # ""
              THEN inferAshbyCompanyKeyFromUrl(feed.url) ELSE feed.id)
        ELSE IF UrlParts(feed.url).host # ""
        THEN ToLowerCase(DotsToUnderscores(UrlParts(feed.url).host) \o "_" \o feed.id)
        ELSE feed.id

\* A feed document of users/{uid}/feeds. active is "true", "false" or "absent".
FeedDoc(id, name, url, active) == [id |-> id, name |-> name, url |-> url, active |-> active]

\* loadUserFeeds: the documents mapped to feeds, those with a url and active kept.
FeedOfDoc(d) ==
    [id |-> d.id, name |-> d.name, url |-> d.url, active |-> (d.active # "false"), source |-> ""]

RECURSIVE SelectFeeds(_)
SelectFeeds(docs) ==
    IF docs = <<>> THEN <<>>
    ELSE LET f == FeedOfDoc(Head(docs))
         IN  IF f.url # NoUrl /\ f.active
             THEN <<f>> \o SelectFeeds(Tail(docs))
             ELSE SelectFeeds(Tail(docs))

loadUserFeeds_Unfiltered(docs) == [i \in DOMAIN docs |-> FeedOfDoc(docs[i])]

loadUserFeeds(docs) == SelectFeeds(docs)

\* ------------------------------------------------------------------ JOB KEY / NORMALIZATION
jobDocId_PerWrite(companyKey, jobId) == companyKey \o "__" \o jobId \o "@" \o ToString(now)

jobDocId(companyKey, jobId) == companyKey \o "__" \o jobId

toGreenhouseLikeJob(source, jobRaw) ==
    IF source = "greenhouse" THEN jobRaw
    ELSE [jobRaw EXCEPT !.updated_at = jobRaw.publishedAt,
                        !.first_published = jobRaw.publishedAt,
                        !.isRemote = IF jobRaw.isRemote = "true" THEN "true" ELSE "false"]

extractStateCodes(loc) ==
    IF loc.text = "" THEN {}
    ELSE {t \in loc.tokens : t \in US_STATE_CODES}
            \cup (IF {"WASHINGTON, D.C", "WASHINGTON D.C", "WASHINGTON DC"} \cap loc.upper # {}
                  THEN {"DC"} ELSE {})

\* The canonical record of a job; the server timestamps are set by the store
\* when the write is committed.
normalizeJob(uid, feed, ghLike, source, nowMs) ==
    LET locationName   == ghLike.location.text
        updatedAtIso   == parseUpdatedAtIso(ghLike, nowMs)
        explicitRemote == ghLike.isRemote = "true"
        computedRemote == isRemoteLocation(ghLike.location) \/ locationName = ""
    IN  [uid          |-> uid,
         source       |-> source,
         companyKey   |-> feedCompanyKey(feed),
         locationName |-> IF locationName # "" THEN locationName ELSE "Remote",
         updatedAtTs  |-> isoToTimestamp(updatedAtIso, nowMs),
         stateCodes   |-> extractStateCodes(ghLike.location),
         isRemote     |-> explicitRemote \/ computedRemote,
         jobId        |-> ghLike.id,
         saved        |-> FALSE]

\* ------------------------------------------------------------------ fetchJson
BodyEmptyJobs == Text("{jobs:[]}", 11, 0)
BodyOneJob    == Text("{jobs:[7]}", 40, 0)
BodyTwoJobs   == Text("{jobs:[7,8]}", 80, 0)
BodyThreeJobs == Text("{jobs:[7e,8,9]}", 120, 0)
BodyJobC7     == Text("{jobs:[c__7]}", 43, 0)
BodyHtml      == Text("<html>Service Unavailable</html>", 32, 0)
BodyNotFound  == Text("<html>board enotfound</html>", 28, 13)
BodyLongTail  == Text("<html>...long page...enotfound</html>", 400, 350)
BodyNone      == Text("", 0, 0)

Bodies == {BodyEmptyJobs, BodyOneJob, BodyHtml, BodyNotFound, BodyLongTail}

Statuses == {200, 401, 404, 429, 503}

StatusText(s) ==
    CASE s = 200 -> "OK"
      [] s = 401 -> "Unauthorized"
      [] s = 404 -> "Not Found"
      [] s = 408 -> "Request Timeout"
      [] s = 425 -> "Too Early"
      [] s = 429 -> "Too Many Requests"
      [] s = 500 -> "Internal Server Error"
      [] s = 502 -> "Bad Gateway"
      [] s = 503 -> "Service Unavailable"
      [] s = 504 -> "Gateway Timeout"
      [] OTHER   -> ""

\* What the network gives one attempt: an HTTP response, the abort of the
\* request by the timeout timer, or a network-level error.
HttpResponse(s, b) == [kind |-> "http", status |-> s, body |-> b, text |-> BodyNone]
AbortOutcome       == [kind |-> "abort", status |-> 0, body |-> BodyNone, text |-> BodyNone]
NetError(t)        == [kind |-> "neterr", status |-> 0, body |-> BodyNone, text |-> t]

NetErrorTexts == {Text("read ECONNRESET", 15, 6), Text("certificate has expired", 23, 0)}

Outcomes ==
    {HttpResponse(s, b) : s \in Statuses, b \in Bodies}
        \cup {AbortOutcome} \cup {NetError(t) : t \in NetErrorTexts}

\* res.ok
ResOk(res) == res.status >= 200 /\ res.status <= 299

isRetryableHttpStatus_NoRetry(status) == FALSE

isRetryableHttpStatus(status) ==
    status = 408 \/ status = 425 \/ status = 429 \/ status = 500
        \/ status = 502 \/ status = 503 \/ status = 504

\* An Error object: its name and its message (a sequence of texts).
Err(name, msg) == [name |-> name, msg |-> msg]

HttpErrorMsg(res, url) ==
    <<Text("HTTP", 4, 0), Text(ToString(res.status), 3, 0),
      Text(StatusText(res.status), Len(StatusText(res.status)), 0),
      Text("for", 3, 0), url, Text("::", 2, 0),
      SliceTo(res.body, MAX_SNIPPET_CHARS)>>

TimeoutErrorMsg(url) ==
    <<Text("Timeout after", 13, 0), Text(ToString(FETCH_TIMEOUT_MS), 5, 0),
      Text("ms for", 6, 0), url>>

\* FETCH_RETRY_BASE_DELAY_MS * Math.pow(2, attempt) + Math.floor(Math.random() * 250)
Jitters == {0, FETCH_JITTER_MS - 1}

BackoffDelay(attempt, jitter) == FETCH_RETRY_BASE_DELAY_MS * (2 ^ attempt) + jitter

FxIdle ==
    [pc |-> "idle", url |-> BodyNone, attempt |-> 0, calls |-> 0,
     hist |-> <<>>, sleeps |-> <<>>, json |-> NoJson, err |-> Err("", <<>>)]

\* fetchJson(url) is called.
FetchCall(url) ==
    /\ fx.pc = "idle"
    /\ fx' = [FxIdle EXCEPT !.pc = "request", !.url = url]
    /\ UNCHANGED <<now, dbVars, resp>>

\* The catch block: decide between a backoff and a throw for the error err.
\* (The variant throws the error of after the loop whatever the last cause was.)
FetchCatch_GenericError(err, jitter) ==
    LET isAbort   == err.name = "AbortError"
        retryable == isAbort \/ MatchesNetPattern(err.msg)
    IN  IF fx.attempt < FETCH_RETRIES /\ retryable
        THEN [pc |-> "sleeping", delay |-> BackoffDelay(fx.attempt, jitter), err |-> err]
        ELSE [pc |-> "threw", delay |-> 0,
              err |-> Err("Error", <<Text("Fetch failed after retries for", 30, 0), fx.url>>)]

FetchCatch(err, jitter) ==
    LET isAbort   == err.name = "AbortError"
        retryable == isAbort \/ MatchesNetPattern(err.msg)
    IN  IF fx.attempt < FETCH_RETRIES /\ retryable
        THEN [pc |-> "sleeping", delay |-> BackoffDelay(fx.attempt, jitter), err |-> err]
        ELSE IF isAbort
        THEN [pc |-> "threw", delay |-> 0, err |-> Err("Error", TimeoutErrorMsg(fx.url))]
        ELSE [pc |-> "threw", delay |-> 0, err |-> err]

\* The while condition of fetchJson.
FetchLoopGuard == fx.attempt <= FETCH_RETRIES

\* One pass of the loop body up to its return, its throw or its sleep:
\* fetch(url) answers with outcome o.
FetchAttemptResult(o, jitter) ==
    IF o.kind = "abort" THEN FetchCatch(Err("AbortError", <<Text("This operation was aborted", 26, 0)>>), jitter)
    ELSE IF o.kind = "neterr" THEN FetchCatch(Err("TypeError", <<o.text>>), jitter)
    ELSE IF ~ResOk(o)
    THEN IF isRetryableHttpStatus(o.status) /\ fx.attempt < FETCH_RETRIES
         THEN [pc |-> "sleeping", delay |-> BackoffDelay(fx.attempt, jitter),
               err |-> Err("Error", HttpErrorMsg(o, fx.url))]
         ELSE FetchCatch(Err("Error", HttpErrorMsg(o, fx.url)), jitter)
    ELSE IF JsonParse(o.body).valid
    THEN [pc |-> "returned", delay |-> 0, err |-> Err("", <<>>)]
    ELSE FetchCatch(Err("SyntaxError", <<Text("Unexpected token in JSON", 24, 0)>>), jitter)

FetchAttempt ==
    /\ fx.pc = "request"
    /\ FetchLoopGuard
    /\ \E o \in Outcomes, jitter \in Jitters :
         LET r == FetchAttemptResult(o, jitter)
         IN  fx' = [fx EXCEPT
                      !.pc = r.pc,
                      !.calls = @ + 1,
                      !.hist = Append(@, o),
                      !.sleeps = IF r.pc = "sleeping" THEN Append(@, r.delay) ELSE @,
                      !.json = IF r.pc = "returned" THEN JsonParse(o.body) ELSE @,
                      !.err = r.err]
    /\ UNCHANGED <<now, dbVars, resp>>

\* The loop is left without a return or a throw of the last pass.
FetchExhausted ==
    /\ fx.pc = "request"
    /\ ~FetchLoopGuard
    /\ fx' = [fx EXCEPT !.pc = "threw",
                        !.err = Err("Error", <<Text("Fetch failed after retries for", 30, 0), fx.url>>)]
    /\ UNCHANGED <<now, dbVars, resp>>

\* await sleep(delay); attempt += 1; continue
FetchSleepDone ==
    /\ fx.pc = "sleeping"
    /\ fx' = [fx EXCEPT !.pc = "request", !.attempt = @ + 1]
    /\ UNCHANGED <<now, dbVars, resp>>

\* ------------------------------------------------------------------ THE WEB
\* How a whole fetchJson(url) call can end: with the parsed document, or with
\* one of the errors it throws.
FetchReturned(body) == [ok |-> TRUE, json |-> JsonParse(body), err |-> Err("", <<>>)]
FetchThrew(err)     == [ok |-> FALSE, json |-> NoJson, err |-> err]

\* What the host of each feed url may answer while the runs go on.
Web(url) ==
    CASE url = UrlGreenhouse ->
            {FetchReturned(BodyOneJob), FetchReturned(BodyThreeJobs),
             FetchThrew(Err("Error", HttpErrorMsg(HttpResponse(404, BodyHtml), url)))}
      [] url = UrlBeta ->
            {FetchReturned(BodyOneJob), FetchThrew(Err("Error", TimeoutErrorMsg(url)))}
      [] url = UrlGamma ->
            {FetchReturned(BodyEmptyJobs),
             FetchThrew(Err("Error", HttpErrorMsg(HttpResponse(503, BodyHtml), url)))}
      [] url = UrlAb ->
            {FetchReturned(BodyJobC7), FetchReturned(BodyEmptyJobs)}
      [] url = UrlAbC ->
            {FetchReturned(BodyOneJob), FetchReturned(BodyEmptyJobs)}
      [] OTHER ->
            {FetchThrew(Err("SyntaxError", <<Text("Unexpected token in JSON", 24, 0)>>))}

\* ------------------------------------------------------------------ THE STORE
Users == {"u1"}
\* The run ids the store can hand out.
RunIds == DOMAIN fetchRuns

NoMsg == <<>>

\* A run record that does not exist yet.
NoRun ==
    [uid |-> "", runType |-> "", status |-> "absent",
     createdAt |-> Null, enqueuedAt |-> Null, updatedAt |-> Null,
     startedAt |-> Null, finishedAt |-> Null, durationMs |-> Null,
     feedsCount |-> Null, processed |-> Null, createdCount |-> Null,
     errorsCount |-> Null, errorSamples |-> <<>>, error |-> NoMsg,
     enqueueError |-> NoMsg, deleted |-> Null, cutoffUpdatedAtTs |-> Null]

NoTask == [st |-> "none", attempts |-> 0, fn |-> "", uid |-> "", runType |-> ""]

\* A write handed to the batched writer: queued until the store answers.
\* st: "pending" (behind the write limiter), "queued", "created", "exists",
\* "failed".
WriteOp(st, docId, data) ==
    [st |-> st, failedAttempts |-> 0, code |-> 0, docId |-> docId, data |-> data]

NoFeedState == [pc |-> "wait", kept |-> <<>>, w |-> <<>>]

InvIdle ==
    [pc |-> "idle", fn |-> "", uid |-> "", runType |-> "", startedAtMs |-> Null,
     feeds |-> <<>>, fs |-> <<>>,
     processedTotal |-> 0, createdTotal |-> 0, errorsCount |-> 0,
     errorSamples |-> <<>>, err |-> NoMsg, deleted |-> 0, cutoffTs |-> Null, del |-> {}]

\* The store's error codes the model draws from: 14 UNAVAILABLE (transient),
\* 7 PERMISSION_DENIED (not transient).
StoreErrorCodes == {14, 7}

StoreErrorMsg(code) ==
    IF code = 14 THEN <<Text("14 UNAVAILABLE", 14, 0)>>
    ELSE <<Text("7 PERMISSION_DENIED", 19, 0)>>

\* bulkWriter.onWriteError: TRUE = retry the write.
onWriteError_OneMore(code, failedAttempts) ==
    LET retryable == code = 4 \/ code = 8 \/ code = 10 \/ code = 13 \/ code = 14
    IN  retryable /\ failedAttempts <= WRITE_MAX_FAILED_ATTEMPTS

onWriteError(code, failedAttempts) ==
    LET retryable == code = 4 \/ code = 8 \/ code = 10 \/ code = 13 \/ code = 14
    IN  retryable /\ failedAttempts < WRITE_MAX_FAILED_ATTEMPTS

\* Firestore's create(ref): the document is written only if ref has none.
\* (A set() in its place would never meet an existing document.)
DocExists_Never(uid, docId) == FALSE

DocExists(uid, docId) == \E d \in jobs : d.uid = uid /\ d.docId = docId

\* The stored document of the create in createJobIfNew.
CreatedDoc(docId, normalized) ==
    [docId |-> docId, uid |-> normalized.uid, source |-> normalized.source,
     companyKey |-> normalized.companyKey, jobId |-> normalized.jobId,
     locationName |-> normalized.locationName, updatedAtTs |-> normalized.updatedAtTs,
     stateCodes |-> normalized.stateCodes, isRemote |-> normalized.isRemote,
     saved |-> normalized.saved,
     lastSeenAt |-> now, lastIngestedAt |-> now, createdAt |-> now, firstSeenAt |-> now]

\* The job store after create(ref, data) met an existing document: the
\* merge-on-conflict variant overwrites it.
StoreAfterConflict_Merge(uid, docId, normalized) ==
    {d \in jobs : ~(d.uid = uid /\ d.docId = docId)}
        \cup {[CreatedDoc(docId, normalized) EXCEPT
                 !.createdAt = (CHOOSE d \in jobs : d.uid = uid /\ d.docId = docId).createdAt,
                 !.firstSeenAt = (CHOOSE d \in jobs : d.uid = uid /\ d.docId = docId).firstSeenAt]}

\* The job store after create(ref, data) met an existing document: unchanged.
StoreAfterConflict(uid, docId, normalized) == jobs

\* What createJobIfNew returns once the store has answered: 1 for a create
\* that succeeded, 0 for one that met an existing document.
CreatedFlag(st) == IF st = "created" THEN 1 ELSE 0

\* ------------------------------------------------------------------ ENQUEUE
\* The lowest run id not used yet (the store's fresh document id).
FreeRunIds == {r \in RunIds : fetchRuns[r].status = "absent"}

\* createFetchRun(uid, runType, "enqueued", {enqueuedAt}) of enqueueUserRun and
\* enqueueUserCleanup; the task is then handed to the queue of function fn.
\* (The trigger that calls the helper says what becomes of resp.)
EnqueueCreate(uid, runType, fn) ==
    /\ FreeRunIds # {}
    /\ LET r == CHOOSE x \in FreeRunIds : \A y \in FreeRunIds : x <= y
       IN  /\ fetchRuns' = [fetchRuns EXCEPT ![r] =
                   [NoRun EXCEPT !.uid = uid, !.runType = runType, !.status = "enqueued",
                                 !.createdAt = now, !.updatedAt = now, !.enqueuedAt = now]]
           /\ tasks' = [tasks EXCEPT ![r] =
                   [st |-> "enqueueing", attempts |-> 0, fn |-> fn, uid |-> uid, runType |-> runType]]
    /\ UNCHANGED <<now, fx, feedsCol, jobs, companies, inv>>

\* queue.enqueue({uid, runType, runId}) succeeds: { ok: true, runId, status: "enqueued" }
EnqueueOk(r) ==
    /\ tasks[r].st = "enqueueing"
    /\ tasks' = [tasks EXCEPT ![r].st = "queued"]
    /\ UNCHANGED <<now, fx, feedsCol, jobs, companies, fetchRuns, inv, resp>>

EnqueueError == <<Text("Queue does not exist", 20, 0)>>

\* The run record after the catch block of enqueueUserRun / enqueueUserCleanup.
EnqueueFailedRecord_StatusKept(rec, msg) ==
    [rec EXCEPT !.updatedAt = now, !.enqueueError = msg]

EnqueueFailedRecord(rec, msg) ==
    [rec EXCEPT !.status = "enqueue_failed", !.updatedAt = now, !.enqueueError = msg]

\* queue.enqueue throws: the record is marked and the error is rethrown. No
\* task exists for the run.
EnqueueFail(r) ==
    /\ tasks[r].st = "enqueueing"
    /\ fetchRuns' = [fetchRuns EXCEPT ![r] = EnqueueFailedRecord(@, EnqueueError)]
    /\ tasks' = [tasks EXCEPT ![r].st = "enqueue_threw"]
    /\ UNCHANGED <<now, fx, feedsCol, jobs, companies, inv, resp>>

\* ------------------------------------------------------------------ TRIGGERS
\* req.auth of a callable request: the uid of the signed-in caller, or none.
NoAuth == ""

\* No trigger has been invoked yet.
NoResp == [fn |-> "", auth |-> NoAuth, uid |-> "", error |-> "", seq |-> 0]

\* The documents of the users collection: schedulerEnabled is "true",
\* "false" or "absent" (the field is written by the web client).
UsersCol ==
    ("u1" :> [schedulerEnabled |-> "false"]) @@ ("u2" :> [schedulerEnabled |-> "absent"])

\* The uid a callable hands to the enqueue helper: req.auth.uid. (The variant
\* takes it from the request's data.)
CallerUid_FromData(auth, dataUid) == dataUid

CallerUid(auth, dataUid) == auth

\* pollNowV2, called with req.auth (NoAuth: not signed in) and a uid in the
\* request data.
pollNowV2(auth, dataUid) ==
    /\ resp.seq < MaxCalls
    /\ IF auth = NoAuth
       THEN /\ resp' = [fn |-> "pollNowV2", auth |-> auth, uid |-> "",
                        error |-> "unauthenticated", seq |-> resp.seq + 1]
            /\ UNCHANGED <<now, fx, dbVars>>
       ELSE /\ EnqueueCreate(CallerUid(auth, dataUid), "manual", "pollUserTaskV2")
            /\ resp' = [fn |-> "pollNowV2", auth |-> auth, uid |-> CallerUid(auth, dataUid),
                        error |-> "", seq |-> resp.seq + 1]

\* purgeOldJobsNowV2, likewise.
purgeOldJobsNowV2(auth, dataUid) ==
    /\ resp.seq < MaxCalls
    /\ IF auth = NoAuth
       THEN /\ resp' = [fn |-> "purgeOldJobsNowV2", auth |-> auth, uid |-> "",
                        error |-> "unauthenticated", seq |-> resp.seq + 1]
            /\ UNCHANGED <<now, fx, dbVars>>
       ELSE /\ EnqueueCreate(CallerUid(auth, dataUid), "cleanup_manual", "purgeUserOldJobsTaskV2")
            /\ resp' = [fn |-> "purgeOldJobsNowV2", auth |-> auth,
                        uid |-> CallerUid(auth, dataUid), error |-> "", seq |-> resp.seq + 1]

\* The users a scheduler tick enumerates: db.collection("users").get().
ScheduledUsers == DOMAIN feedsCol

\* pollGreenhouseFeedsV2: the tick's enqueue for user u of the enumeration.
pollGreenhouseFeedsV2(u) ==
    /\ resp.seq < MaxCalls
    /\ u \in ScheduledUsers
    /\ EnqueueCreate(u, "scheduled", "pollUserTaskV2")
    /\ resp' = [fn |-> "pollGreenhouseFeedsV2", auth |-> NoAuth, uid |-> u,
                error |-> "", seq |-> resp.seq + 1]

\* purgeOldJobsDailyV2: the tick's enqueue for user u of the enumeration.
purgeOldJobsDailyV2(u) ==
    /\ resp.seq < MaxCalls
    /\ u \in ScheduledUsers
    /\ EnqueueCreate(u, "cleanup_scheduled", "purgeUserOldJobsTaskV2")
    /\ resp' = [fn |-> "purgeOldJobsDailyV2", auth |-> NoAuth, uid |-> u,
                error |-> "", seq |-> resp.seq + 1]

\* ------------------------------------------------------------------ MAIN USER TASK
\* The platform dispatches the task of run r to its handler. The handler
\* returns at once when the payload has no uid or run id.
TaskDispatch(r) ==
    /\ tasks[r].st = "queued"
    /\ inv[r].pc = "idle"
    /\ IF tasks[r].uid = ""
       THEN /\ tasks' = [tasks EXCEPT ![r].st = "done", ![r].attempts = @ + 1]
            /\ UNCHANGED inv
       ELSE /\ tasks' = [tasks EXCEPT ![r].st = "running", ![r].attempts = @ + 1]
            /\ inv' = [inv EXCEPT ![r] =
                  [InvIdle EXCEPT
                     !.pc = IF tasks[r].fn = "pollUserTaskV2" THEN "load" ELSE "purgeStart",
                     !.fn = tasks[r].fn, !.uid = tasks[r].uid,
                     !.runType = IF tasks[r].runType # "" THEN tasks[r].runType
                                 ELSE IF tasks[r].fn = "pollUserTaskV2" THEN "scheduled"
                                 ELSE "cleanup",
                     !.startedAtMs = now]]
    /\ UNCHANGED <<now, fx, feedsCol, jobs, companies, fetchRuns, resp>>

\* const feeds = await loadUserFeeds(uid)
LoadFeedsOk(r) ==
    /\ inv[r].pc = "load"
    /\ inv' = [inv EXCEPT ![r].pc = "markRunning",
                          ![r].feeds = loadUserFeeds(feedsCol[inv[r].uid])]
    /\ UNCHANGED <<now, fx, feedsCol, jobs, companies, fetchRuns, tasks, resp>>

LoadFeedsError == <<Text("4 DEADLINE_EXCEEDED: feeds query", 32, 0)>>

\* loadUserFeeds throws: processUserFeeds is left before its try block, the
\* error arrives in the catch block of the task handler.
LoadFeedsFail(r) ==
    /\ inv[r].pc = "load"
    /\ inv' = [inv EXCEPT ![r].pc = "handlerCatch", ![r].err = LoadFeedsError]
    /\ UNCHANGED <<now, fx, feedsCol, jobs, companies, fetchRuns, tasks, resp>>

\* The first write of processUserFeeds to the run record.
RunningRecord_StatusKept(rec, runType, feedsCount) ==
    [rec EXCEPT !.runType = runType, !.startedAt = now,
                !.feedsCount = feedsCount, !.updatedAt = now,
                !.processed = 0, !.createdCount = 0, !.errorsCount = 0]

RunningRecord(rec, runType, feedsCount) ==
    [rec EXCEPT !.runType = runType, !.status = "running", !.startedAt = now,
                !.feedsCount = feedsCount, !.updatedAt = now,
                !.processed = 0, !.createdCount = 0, !.errorsCount = 0]

MarkRunning(r) ==
    /\ inv[r].pc = "markRunning"
    /\ fetchRuns' = [fetchRuns EXCEPT ![r] = RunningRecord(@, inv[r].runType, Len(inv[r].feeds))]
    /\ inv' = [inv EXCEPT ![r].pc = "feeds",
                          ![r].fs = [i \in 1..Len(inv[r].feeds) |-> NoFeedState]]
    /\ UNCHANGED <<now, fx, feedsCol, jobs, companies, tasks, resp>>

\* ------------------------------------------------------------------ FEED PROCESSING
ActiveFeeds(iv) == {i \in 1..Len(iv.fs) : iv.fs[i].pc \in {"fetch", "writing"}}
WaitingFeeds(iv) == {i \in 1..Len(iv.fs) : iv.fs[i].pc = "wait"}

\* pLimit(FEED_CONCURRENCY): the limiter admits the next feed of the list when
\* fewer than FEED_CONCURRENCY are being processed.
FeedLimit_OneMore == FEED_CONCURRENCY + 1

FeedLimit == FEED_CONCURRENCY

FeedStart(r) ==
    /\ inv[r].pc = "feeds"
    /\ WaitingFeeds(inv[r]) # {}
    /\ Cardinality(ActiveFeeds(inv[r])) < FeedLimit
    /\ LET i == CHOOSE x \in WaitingFeeds(inv[r]) : \A y \in WaitingFeeds(inv[r]) : x <= y
       IN  inv' = [inv EXCEPT ![r].fs[i].pc = "fetch"]
    /\ UNCHANGED <<now, fx, feedsCol, jobs, companies, fetchRuns, tasks, resp>>

\* The raw jobs of a feed that pass the update window and the location filter.
RECURSIVE KeepRaw(_, _, _)
KeepRaw(source, jobsRaw, nowMs) ==
    IF jobsRaw = <<>> THEN <<>>
    ELSE LET j    == Head(jobsRaw)
             rest == KeepRaw(source, Tail(jobsRaw), nowMs)
         IN  IF ~isJobWithinUpdateWindow(source, j, nowMs) THEN rest
             ELSE IF j.location.text = "" \/ shouldKeepJobByLocation(j.location, j)
             THEN <<j>> \o rest
             ELSE rest

\* The create of one kept job, as createJobIfNew hands it to the writer.
JobWrite(uid, feed, source, jobRaw, k, nowMs) ==
    LET ghLike == toGreenhouseLikeJob(source, jobRaw)
    IN  WriteOp(IF k <= JOB_WRITE_CONCURRENCY THEN "queued" ELSE "pending",
                jobDocId(feedCompanyKey(feed), ghLike.id),
                normalizeJob(uid, feed, ghLike, source, nowMs))

\* The catch block around processOneFeed: the failure of feed i is counted
\* and sampled, the run goes on.
FeedFailure_Unisolated(iv, i, msg) ==
    [iv EXCEPT !.pc = "innerCatch", !.err = msg, !.fs[i].pc = "err"]

FeedFailure_Uncapped(iv, i, msg) ==
    [iv EXCEPT !.errorsCount = @ + 1,
               !.errorSamples = Append(@, [url |-> iv.feeds[i].url, error |-> msg]),
               !.fs[i].pc = "err"]

FeedFailure(iv, i, msg) ==
    [iv EXCEPT !.errorsCount = @ + 1,
               !.errorSamples = IF Len(@) < MAX_ERROR_SAMPLES
                                THEN Append(@, [url |-> iv.feeds[i].url, error |-> msg])
                                ELSE @,
               !.fs[i].pc = "err"]

\* fetchJson(feed.url) has ended for feed i of run r.
FeedFetched(r, i) ==
    /\ inv[r].pc = "feeds"
    /\ i \in 1..Len(inv[r].fs)
    /\ inv[r].fs[i].pc = "fetch"
    /\ \E res \in Web(inv[r].feeds[i].url) :
         LET feed   == inv[r].feeds[i]
             source == IF feed.source # "" THEN feed.source ELSE detectFeedSource(feed.url)
             kept   == KeepRaw(source, extractJobsFromFeedJson(source, res.json), now)
         IN  IF res.ok
             THEN inv' = [inv EXCEPT ![r].fs[i] =
                     [pc |-> "writing", kept |-> kept,
                      w |-> [k \in 1..Len(kept) |->
                               JobWrite(inv[r].uid, feed, source, kept[k], k, now)]]]
             ELSE inv' = [inv EXCEPT ![r] = FeedFailure(@, i, res.err.msg)]
    /\ UNCHANGED <<now, fx, feedsCol, jobs, companies, fetchRuns, tasks, resp>>

\* A settled write frees its place in the write limiter for the next one.
PromoteNext(w) ==
    LET pending == {k \in 1..Len(w) : w[k].st = "pending"}
    IN  IF pending = {} THEN w
        ELSE [w EXCEPT ![CHOOSE k \in pending : \A m \in pending : k <= m].st = "queued"]

WriterOpen(r) == inv[r].pc \in {"feeds", "closing"}

\* The store answers the create of kept job k of feed i: the document is
\* written, or one exists already (ALREADY_EXISTS, not retried).
WriteCommit(r, i, k) ==
    /\ WriterOpen(r)
    /\ i \in 1..Len(inv[r].fs)
    /\ k \in 1..Len(inv[r].fs[i].w)
    /\ inv[r].fs[i].w[k].st = "queued"
    /\ LET op == inv[r].fs[i].w[k]
       IN  IF DocExists(inv[r].uid, op.docId)
           THEN /\ jobs' = StoreAfterConflict(inv[r].uid, op.docId, op.data)
                /\ inv' = [inv EXCEPT ![r].fs[i].w =
                              PromoteNext([@ EXCEPT ![k].st = "exists"])]
           ELSE /\ jobs' = jobs \cup {CreatedDoc(op.docId, op.data)}
                /\ inv' = [inv EXCEPT ![r].fs[i].w =
                              PromoteNext([@ EXCEPT ![k].st = "created"])]
    /\ UNCHANGED <<now, fx, feedsCol, companies, fetchRuns, tasks, resp>>

\* The store answers the create with an error: the writer asks onWriteError
\* whether to send it again.
WriteError(r, i, k) ==
    /\ WriterOpen(r)
    /\ i \in 1..Len(inv[r].fs)
    /\ k \in 1..Len(inv[r].fs[i].w)
    /\ inv[r].fs[i].w[k].st = "queued"
    /\ \E code \in StoreErrorCodes :
         LET n == inv[r].fs[i].w[k].failedAttempts + 1
         IN  IF onWriteError(code, n)
             THEN inv' = [inv EXCEPT ![r].fs[i].w[k].failedAttempts = n]
             ELSE inv' = [inv EXCEPT ![r].fs[i].w =
                            PromoteNext([@ EXCEPT ![k].st = "failed", ![k].failedAttempts = n,
                                                  ![k].code = code])]
    /\ UNCHANGED <<now, fx, feedsCol, jobs, companies, fetchRuns, tasks, resp>>

\* upsertCompanyDoc: set with merge on companies/{companyKey}.
UpsertCompany(uid, feed) ==
    LET companyKey == feedCompanyKey(feed)
    IN  {c \in companies : ~(c.uid = uid /\ c.companyKey = companyKey)}
            \cup {[uid |-> uid, companyKey |-> companyKey,
                   companyName |-> IF feed.name # "" THEN feed.name ELSE companyKey,
                   lastSeenAt |-> now, url |-> feed.url,
                   source |-> detectFeedSource(feed.url)]}

RECURSIVE SumCreated(_)
SumCreated(w) == IF w = <<>> THEN 0 ELSE CreatedFlag(Head(w).st) + SumCreated(Tail(w))

FeedComplete_OnlyWhenCreated(r, i) ==
    /\ inv[r].pc = "feeds"
    /\ i \in 1..Len(inv[r].fs)
    /\ inv[r].fs[i].pc = "writing"
    /\ \A k \in 1..Len(inv[r].fs[i].w) : inv[r].fs[i].w[k].st \in {"created", "exists"}
    /\ companies' = IF SumCreated(inv[r].fs[i].w) > 0
                    THEN UpsertCompany(inv[r].uid, inv[r].feeds[i])
                    ELSE companies
    /\ inv' = [inv EXCEPT ![r].fs[i].pc = "ok",
                          ![r].processedTotal = @ + Len(inv[r].fs[i].kept),
                          ![r].createdTotal = @ + SumCreated(inv[r].fs[i].w)]
    /\ UNCHANGED <<now, fx, feedsCol, jobs, fetchRuns, tasks, resp>>

\* Every create of feed i has returned: processOneFeed upserts the company
\* document and returns its summary, which is added to the run's totals.
FeedComplete(r, i) ==
    /\ inv[r].pc = "feeds"
    /\ i \in 1..Len(inv[r].fs)
    /\ inv[r].fs[i].pc = "writing"
    /\ \A k \in 1..Len(inv[r].fs[i].w) : inv[r].fs[i].w[k].st \in {"created", "exists"}
    /\ companies' = IF Len(inv[r].fs[i].kept) > 0
                    THEN UpsertCompany(inv[r].uid, inv[r].feeds[i])
                    ELSE companies
    /\ inv' = [inv EXCEPT ![r].fs[i].pc = "ok",
                          ![r].processedTotal = @ + Len(inv[r].fs[i].kept),
                          ![r].createdTotal = @ + SumCreated(inv[r].fs[i].w)]
    /\ UNCHANGED <<now, fx, feedsCol, jobs, fetchRuns, tasks, resp>>

FeedWriteRejected_Rethrown(r, i) ==
    /\ inv[r].pc = "feeds"
    /\ i \in 1..Len(inv[r].fs)
    /\ inv[r].fs[i].pc = "writing"
    /\ \E k \in 1..Len(inv[r].fs[i].w) :
         /\ inv[r].fs[i].w[k].st = "failed"
         /\ inv' = [inv EXCEPT ![r].pc = "innerCatch",
                               ![r].err = StoreErrorMsg(inv[r].fs[i].w[k].code),
                               ![r].fs[i].pc = "err"]
    /\ UNCHANGED <<now, fx, feedsCol, jobs, companies, fetchRuns, tasks, resp>>

\* A create of feed i was rejected with an error other than already-exists:
\* createJobIfNew rethrows it and processOneFeed fails.
FeedWriteRejected(r, i) ==
    /\ inv[r].pc = "feeds"
    /\ i \in 1..Len(inv[r].fs)
    /\ inv[r].fs[i].pc = "writing"
    /\ \E k \in 1..Len(inv[r].fs[i].w) :
         /\ inv[r].fs[i].w[k].st = "failed"
         /\ inv' = [inv EXCEPT ![r] =
               FeedFailure(@, i, StoreErrorMsg(inv[r].fs[i].w[k].code))]
    /\ UNCHANGED <<now, fx, feedsCol, jobs, companies, fetchRuns, tasks, resp>>

\* ------------------------------------------------------------------ RUN COMPLETION
\* Promise.all over the feeds has resolved: await bulkWriter.close() begins.
CloseWriter(r) ==
    /\ inv[r].pc = "feeds"
    /\ \A i \in 1..Len(inv[r].fs) : inv[r].fs[i].pc \in {"ok", "err"}
    /\ inv' = [inv EXCEPT ![r].pc = "closing"]
    /\ UNCHANGED <<now, fx, feedsCol, jobs, companies, fetchRuns, tasks, resp>>

QueuedWrites(iv) ==
    UNION {{<<i, k>> : k \in {m \in 1..Len(iv.fs[i].w) : iv.fs[i].w[m].st \in {"queued", "pending"}}} :
             i \in 1..Len(iv.fs)}

\* close() resolves once every write handed to the writer has been answered.
CloseOk(r) ==
    /\ inv[r].pc = "closing"
    /\ QueuedWrites(inv[r]) = {}
    /\ inv' = [inv EXCEPT ![r].pc = "final"]
    /\ UNCHANGED <<now, fx, feedsCol, jobs, companies, fetchRuns, tasks, resp>>

CloseError == <<Text("BulkWriter has already been closed", 34, 0)>>

\* close() rejects: the catch block of processUserFeeds takes the error.
CloseFail(r) ==
    /\ inv[r].pc = "closing"
    /\ inv' = [inv EXCEPT ![r].pc = "innerCatch", ![r].err = CloseError]
    /\ UNCHANGED <<now, fx, feedsCol, jobs, companies, fetchRuns, tasks, resp>>

\* status: errorsCount ? "done_with_errors" : "done"
FinalStatus_AlwaysDone(errorsCount) == "done"

FinalStatus(errorsCount) == IF errorsCount # 0 THEN "done_with_errors" ELSE "done"

\* The last write of a processUserFeeds call that met no run-level error.
FinalRecord(rec, iv) ==
    [rec EXCEPT !.status = FinalStatus(iv.errorsCount),
                !.finishedAt = now, !.updatedAt = now,
                !.durationMs = now - iv.startedAtMs,
                !.processed = iv.processedTotal,
                !.createdCount = iv.createdTotal,
                !.errorsCount = iv.errorsCount,
                !.errorSamples = iv.errorSamples]

FinalWrite(r) ==
    /\ inv[r].pc = "final"
    /\ fetchRuns' = [fetchRuns EXCEPT ![r] = FinalRecord(@, inv[r])]
    /\ inv' = [inv EXCEPT ![r].pc = "return"]
    /\ UNCHANGED <<now, fx, feedsCol, jobs, companies, tasks, resp>>

\* The record written by a catch block for a run-level error.
RunFailedRecord_NotMarked(rec, msg) == [rec EXCEPT !.updatedAt = now]

RunFailedRecord(rec, msg) ==
    [rec EXCEPT !.status = "failed", !.updatedAt = now, !.finishedAt = now, !.error = msg]

\* The catch block of processUserFeeds: the record is marked failed (with the
\* error samples so far) and the error is rethrown.
InnerCatch(r) ==
    /\ inv[r].pc = "innerCatch"
    /\ fetchRuns' = [fetchRuns EXCEPT ![r] =
          [RunFailedRecord(@, inv[r].err) EXCEPT !.errorSamples = inv[r].errorSamples]]
    /\ inv' = [inv EXCEPT ![r].pc = "handlerCatch"]
    /\ UNCHANGED <<now, fx, feedsCol, jobs, companies, tasks, resp>>

\* The catch block of the task handler: the record is marked failed and the
\* error is thrown to the platform.
HandlerCatch(r) ==
    /\ inv[r].pc = "handlerCatch"
    /\ fetchRuns' = [fetchRuns EXCEPT ![r] = RunFailedRecord(@, inv[r].err)]
    /\ inv' = [inv EXCEPT ![r].pc = "threw"]
    /\ UNCHANGED <<now, fx, feedsCol, jobs, companies, tasks, resp>>

\* The handler returns: the task is complete.
HandlerReturn(r) ==
    /\ inv[r].pc = "return"
    /\ tasks' = [tasks EXCEPT ![r].st = "done"]
    /\ inv' = [inv EXCEPT ![r] = InvIdle]
    /\ UNCHANGED <<now, fx, feedsCol, jobs, companies, fetchRuns, resp>>

\* retryConfig: a task whose attempt failed is delivered again until it has
\* been attempted maxAttempts times.
AfterFailedAttempt(task) ==
    [task EXCEPT !.st = IF task.attempts < TASK_MAX_ATTEMPTS THEN "queued" ELSE "dead"]

\* The handler has thrown: the platform takes the task back.
PlatformRetry(r) ==
    /\ inv[r].pc = "threw"
    /\ tasks' = [tasks EXCEPT ![r] = AfterFailedAttempt(@)]
    /\ inv' = [inv EXCEPT ![r] = InvIdle]
    /\ UNCHANGED <<now, fx, feedsCol, jobs, companies, fetchRuns, resp>>

\* timeoutSeconds: the platform ends an invocation that runs too long, at
\* whatever point it has reached; its pending writes are lost with it.
InvocationTimeout(r) ==
    /\ inv[r].pc \notin {"idle", "threw"}
    /\ tasks' = [tasks EXCEPT ![r] = AfterFailedAttempt(@)]
    /\ inv' = [inv EXCEPT ![r] = InvIdle]
    /\ UNCHANGED <<now, fx, feedsCol, jobs, companies, fetchRuns, resp>>

\* Time passes.
Tick ==
    /\ now < T0 + MaxTicks
    /\ now' = now + 1
    /\ UNCHANGED <<fx, dbVars, resp>>

\* ------------------------------------------------------------------ CLEANUP TASK
\* cutoffTimestampRetentionNow()
cutoffTimestampRetentionNow(nowMs) == nowMs - RETENTION_WINDOW_MS

\* The first write of purgeOldJobsForUser to the run record.
PurgeRunningRecord(rec, runType, cutoffTs) ==
    [rec EXCEPT !.runType = runType, !.status = "running", !.startedAt = now,
                !.updatedAt = now, !.cutoffUpdatedAtTs = cutoffTs,
                !.deleted = 0, !.errorsCount = 0]

PurgeStart(r) ==
    /\ inv[r].pc = "purgeStart"
    /\ fetchRuns' = [fetchRuns EXCEPT ![r] =
          PurgeRunningRecord(@, inv[r].runType, cutoffTimestampRetentionNow(inv[r].startedAtMs))]
    /\ inv' = [inv EXCEPT ![r].pc = "purgeLoop",
                          ![r].cutoffTs = cutoffTimestampRetentionNow(inv[r].startedAtMs)]
    /\ UNCHANGED <<now, fx, feedsCol, jobs, companies, tasks, resp>>

\* where("updatedAtTs", "<", cutoffTs).orderBy("updatedAtTs", "asc").limit(CLEANUP_QUERY_LIMIT)
PurgePages(uid, cutoffTs) ==
    LET expired == {d \in jobs : d.uid = uid /\ d.updatedAtTs < cutoffTs}
    IN  IF Cardinality(expired) <= CLEANUP_QUERY_LIMIT
        THEN {expired}
        ELSE LET notAfter(d) == {e \in expired : e.updatedAtTs <= d.updatedAtTs}
                 before(d)   == {e \in expired : e.updatedAtTs < d.updatedAtTs}
                 sure == {d \in expired : Cardinality(notAfter(d)) <= CLEANUP_QUERY_LIMIT}
                 ties == {d \in expired \ sure : Cardinality(before(d)) < CLEANUP_QUERY_LIMIT}
             IN  {sure \cup rest : rest \in
                    {t \in SUBSET ties :
                        Cardinality(t) = CLEANUP_QUERY_LIMIT - Cardinality(sure)}}

\* Where the page loop goes after a page: it breaks on an empty page and on
\* a page shorter than the limit. (The variant never breaks.)
AfterPage_NoBreak(page) == "purgeLoop"

AfterPage(page) ==
    IF page = {} \/ Cardinality(page) < CLEANUP_QUERY_LIMIT THEN "purgeClosing" ELSE "purgeLoop"

\* One pass of the page loop: the page is read, a delete of each of its
\* documents is handed to the writer and counted.
PurgeQuery(r) ==
    /\ inv[r].pc = "purgeLoop"
    /\ \E page \in PurgePages(inv[r].uid, inv[r].cutoffTs) :
         inv' = [inv EXCEPT
                   ![r].del = @ \cup {d.docId : d \in page},
                   ![r].deleted = @ + Cardinality(page),
                   ![r].pc = AfterPage(page)]
    /\ UNCHANGED <<now, fx, feedsCol, jobs, companies, fetchRuns, tasks, resp>>

\* The store applies a queued delete.
PurgeDeleteCommit(r, docId) ==
    /\ inv[r].pc \in {"purgeLoop", "purgeClosing"}
    /\ docId \in inv[r].del
    /\ jobs' = {d \in jobs : ~(d.uid = inv[r].uid /\ d.docId = docId)}
    /\ inv' = [inv EXCEPT ![r].del = @ \ {docId}]
    /\ UNCHANGED <<now, fx, feedsCol, companies, fetchRuns, tasks, resp>>

\* A queued delete fails for good (onWriteError answers false): it is logged,
\* the document stays.
PurgeDeleteFail(r, docId) ==
    /\ inv[r].pc \in {"purgeLoop", "purgeClosing"}
    /\ docId \in inv[r].del
    /\ inv' = [inv EXCEPT ![r].del = @ \ {docId}]
    /\ UNCHANGED <<now, fx, feedsCol, jobs, companies, fetchRuns, tasks, resp>>

\* The last write of a purgeOldJobsForUser call that met no error.
PurgeFinalRecord(rec, iv) ==
    [rec EXCEPT !.status = "done", !.finishedAt = now, !.updatedAt = now,
                !.durationMs = now - iv.startedAtMs, !.deleted = iv.deleted]

\* close() has resolved (every queued delete answered): the run is done.
PurgeFinish(r) ==
    /\ inv[r].pc = "purgeClosing"
    /\ inv[r].del = {}
    /\ fetchRuns' = [fetchRuns EXCEPT ![r] = PurgeFinalRecord(@, inv[r])]
    /\ inv' = [inv EXCEPT ![r].pc = "return"]
    /\ UNCHANGED <<now, fx, feedsCol, jobs, companies, tasks, resp>>

\* The page query or close() throws: the catch block of purgeOldJobsForUser
\* marks the record failed and rethrows to the handler's catch block.
PurgeFail(r) ==
    /\ inv[r].pc \in {"purgeLoop", "purgeClosing"}
    /\ fetchRuns' = [fetchRuns EXCEPT ![r] = RunFailedRecord(@, CloseError)]
    /\ inv' = [inv EXCEPT ![r].pc = "handlerCatch", ![r].err = CloseError]
    /\ UNCHANGED <<now, fx, feedsCol, jobs, companies, tasks, resp>>

\* ------------------------------------------------------------------ THE RUN STATE MACHINE
\* One user with two feeds that are processed (f1, f2), an inactive feed and
\* a feed document without a url.
RunFeedDocs ==
    <<FeedDoc("f1", "", UrlBeta, "absent"),
      FeedDoc("f2", "Gamma Inc", UrlGamma, "true"),
      FeedDoc("f3", "", UrlOther, "false"),
      FeedDoc("f4", "", NoUrl, "true")>>

\* A job stored by an earlier run, its freshness timestamp past retention.
OldDoc ==
    [docId |-> "beta__3", uid |-> "u1", source |-> "greenhouse",
     companyKey |-> "beta", jobId |-> "3", locationName |-> "Remote",
     updatedAtTs |-> UPDATE_WINDOW_MS - 1, stateCodes |-> {}, isRemote |-> TRUE,
     saved |-> FALSE, lastSeenAt |-> UPDATE_WINDOW_MS, lastIngestedAt |-> UPDATE_WINDOW_MS,
     createdAt |-> UPDATE_WINDOW_MS, firstSeenAt |-> UPDATE_WINDOW_MS]

RunInit ==
    /\ now = T0
    /\ fx = FxIdle
    /\ feedsCol = [u \in Users |-> RunFeedDocs]
    /\ jobs = {OldDoc}
    /\ companies = {}
    /\ fetchRuns = [r \in {1} |-> NoRun]
    /\ tasks = [r \in {1} |-> NoTask]
    /\ inv = [r \in {1} |-> InvIdle]
    /\ resp = NoResp

\* The feeds and the kept jobs a step may be about.
FeedIdx(r) == 1..Len(inv[r].fs)
WriteIdx(r, i) == IF i \in FeedIdx(r) THEN 1..Len(inv[r].fs[i].w) ELSE {}
StoredIds == {d.docId : d \in jobs}

RunNext ==
    \/ \E u \in Users : pollNowV2(u, u)
    \/ \E u \in Users : purgeOldJobsDailyV2(u)
    \/ \E r \in RunIds : EnqueueOk(r)
    \/ \E r \in RunIds : EnqueueFail(r)
    \/ \E r \in RunIds : TaskDispatch(r)
    \/ \E r \in RunIds : LoadFeedsOk(r)
    \/ \E r \in RunIds : LoadFeedsFail(r)
    \/ \E r \in RunIds : MarkRunning(r)
    \/ \E r \in RunIds : FeedStart(r)
    \/ \E r \in RunIds : \E i \in FeedIdx(r) : FeedFetched(r, i)
    \/ \E r \in RunIds : \E i \in FeedIdx(r) : \E k \in WriteIdx(r, i) : WriteCommit(r, i, k)
    \/ \E r \in RunIds : \E i \in FeedIdx(r) : \E k \in WriteIdx(r, i) : WriteError(r, i, k)
    \/ \E r \in RunIds : \E i \in FeedIdx(r) : FeedComplete(r, i)
    \/ \E r \in RunIds : \E i \in FeedIdx(r) : FeedWriteRejected(r, i)
    \/ \E r \in RunIds : CloseWriter(r)
    \/ \E r \in RunIds : CloseOk(r)
    \/ \E r \in RunIds : CloseFail(r)
    \/ \E r \in RunIds : FinalWrite(r)
    \/ \E r \in RunIds : InnerCatch(r)
    \/ \E r \in RunIds : HandlerCatch(r)
    \/ \E r \in RunIds : HandlerReturn(r)
    \/ \E r \in RunIds : PlatformRetry(r)
    \/ \E r \in RunIds : InvocationTimeout(r)
    \/ \E r \in RunIds : PurgeStart(r)
    \/ \E r \in RunIds : PurgeQuery(r)
    \/ \E r \in RunIds : \E d \in StoredIds : PurgeDeleteCommit(r, d)
    \/ \E r \in RunIds : \E d \in StoredIds : PurgeDeleteFail(r, d)
    \/ \E r \in RunIds : PurgeFinish(r)
    \/ \E r \in RunIds : PurgeFail(r)
    \/ Tick

Spec == RunInit /\ [][RunNext]_vars

\* ------------------------------------------------------------------ TWO RUNS ON ONE FEED
\* One user with one feed; two runs of it are enqueued and their tasks are
\* delivered side by side.
IngestFeedDocs == <<FeedDoc("f1", "Acme", UrlGreenhouse, "true")>>

\* Job 7 of the feed as an earlier run stored it; the user has saved it since.
PriorDoc ==
    [docId |-> "acme__7", uid |-> "u1", source |-> "greenhouse",
     companyKey |-> "acme", jobId |-> "7", locationName |-> "Remote - US",
     updatedAtTs |-> W0 - 1, stateCodes |-> {}, isRemote |-> TRUE,
     saved |-> TRUE, lastSeenAt |-> W0, lastIngestedAt |-> W0,
     createdAt |-> W0, firstSeenAt |-> W0]

EnqueuedRun(uid, runType) ==
    [NoRun EXCEPT !.uid = uid, !.runType = runType, !.status = "enqueued",
                  !.createdAt = T0, !.updatedAt = T0, !.enqueuedAt = T0]

IngestInit ==
    /\ now = T0
    /\ fx = FxIdle
    /\ feedsCol = [u \in Users |-> IngestFeedDocs]
    /\ jobs \in {{}, {PriorDoc}}
    /\ companies = {}
    /\ fetchRuns = [r \in {1, 2} |-> EnqueuedRun("u1", "scheduled")]
    /\ tasks = [r \in {1, 2} |->
                  [st |-> "queued", attempts |-> 0, fn |-> "pollUserTaskV2",
                   uid |-> "u1", runType |-> "scheduled"]]
    /\ inv = [r \in {1, 2} |-> InvIdle]
    /\ resp = NoResp

IngestNext ==
    \/ \E r \in RunIds : TaskDispatch(r)
    \/ \E r \in RunIds : LoadFeedsOk(r)
    \/ \E r \in RunIds : MarkRunning(r)
    \/ \E r \in RunIds : FeedStart(r)
    \/ \E r \in RunIds : \E i \in FeedIdx(r) : FeedFetched(r, i)
    \/ \E r \in RunIds : \E i \in FeedIdx(r) : \E k \in WriteIdx(r, i) : WriteCommit(r, i, k)
    \/ \E r \in RunIds : \E i \in FeedIdx(r) : FeedComplete(r, i)
    \/ \E r \in RunIds : CloseWriter(r)
    \/ \E r \in RunIds : CloseOk(r)
    \/ \E r \in RunIds : FinalWrite(r)
    \/ \E r \in RunIds : HandlerReturn(r)
    \/ Tick

SpecIngest == IngestInit /\ [][IngestNext]_vars

\* ------------------------------------------------------------------ THE TRIGGERS AND THEIR RUNS
\* Two users, each with one feed; u1 has paused the schedule.
TriggerUsers == {"u1", "u2"}

TriggerFeedDocs == <<FeedDoc("g1", "Gamma Inc", UrlGamma, "true")>>

TriggerInit ==
    /\ now = T0
    /\ fx = FxIdle
    /\ feedsCol = [u \in TriggerUsers |-> TriggerFeedDocs]
    /\ jobs = {}
    /\ companies = {}
    /\ fetchRuns = [r \in {1, 2} |-> NoRun]
    /\ tasks = [r \in {1, 2} |-> NoTask]
    /\ inv = [r \in {1, 2} |-> InvIdle]
    /\ resp = NoResp

TriggerNext ==
    \/ \E auth \in TriggerUsers \cup {NoAuth}, dataUid \in TriggerUsers : pollNowV2(auth, dataUid)
    \/ \E u \in TriggerUsers : pollGreenhouseFeedsV2(u)
    \/ \E r \in RunIds : EnqueueOk(r)
    \/ \E r \in RunIds : EnqueueFail(r)
    \/ \E r \in RunIds : TaskDispatch(r)
    \/ \E r \in RunIds : LoadFeedsOk(r)
    \/ \E r \in RunIds : MarkRunning(r)
    \/ \E r \in RunIds : FeedStart(r)
    \/ \E r \in RunIds : \E i \in FeedIdx(r) : FeedFetched(r, i)
    \/ \E r \in RunIds : \E i \in FeedIdx(r) : FeedComplete(r, i)
    \/ \E r \in RunIds : CloseWriter(r)
    \/ \E r \in RunIds : CloseOk(r)
    \/ \E r \in RunIds : FinalWrite(r)
    \/ \E r \in RunIds : HandlerReturn(r)

SpecTrigger == TriggerInit /\ [][TriggerNext]_vars

\* ------------------------------------------------------------------ ONE fetchJson CALL
FetchInit ==
    /\ now = T0
    /\ fx = FxIdle
    /\ feedsCol = [u \in Users |-> <<>>]
    /\ jobs = {}
    /\ companies = {}
    /\ fetchRuns = [r \in {1} |-> NoRun]
    /\ tasks = [r \in {1} |-> NoTask]
    /\ inv = [r \in {1} |-> InvIdle]
    /\ resp = NoResp

FetchNext ==
    \/ \E url \in Urls : FetchCall(url)
    \/ FetchAttempt
    \/ FetchSleepDone

SpecFetch == FetchInit /\ [][FetchNext]_vars

\* ------------------------------------------------------------------ TWO PURGES AND AN INGESTION
\* Job 7 of the beta board as a run stored it more than the retention window
\* ago (the board has updated the posting since), and a job whose freshness
\* timestamp is exactly the cutoff of a purge that starts now.
ExpiredDoc == [OldDoc EXCEPT !.docId = "beta__7", !.jobId = "7"]

AtCutoffDoc ==
    [OldDoc EXCEPT !.docId = "beta__5", !.jobId = "5",
                   !.updatedAtTs = cutoffTimestampRetentionNow(T0)]

RaceFeedDocs == <<FeedDoc("f1", "", UrlBeta, "true")>>

QueuedTask(fn, uid, runType) ==
    [st |-> "queued", attempts |-> 0, fn |-> fn, uid |-> uid, runType |-> runType]

\* A manual and a scheduled cleanup of the same user and a scheduled
\* ingestion are enqueued; their tasks are delivered side by side.
RaceInit ==
    /\ now = T0
    /\ fx = FxIdle
    /\ feedsCol = [u \in Users |-> RaceFeedDocs]
    /\ jobs = {ExpiredDoc, AtCutoffDoc}
    /\ companies = {}
    /\ fetchRuns = (1 :> EnqueuedRun("u1", "cleanup_manual"))
                   @@ (2 :> EnqueuedRun("u1", "cleanup_scheduled"))
                   @@ (3 :> EnqueuedRun("u1", "scheduled"))
    /\ tasks = (1 :> QueuedTask("purgeUserOldJobsTaskV2", "u1", "cleanup_manual"))
               @@ (2 :> QueuedTask("purgeUserOldJobsTaskV2", "u1", "cleanup_scheduled"))
               @@ (3 :> QueuedTask("pollUserTaskV2", "u1", "scheduled"))
    /\ inv = [r \in {1, 2, 3} |-> InvIdle]
    /\ resp = NoResp

\* The document ids a queued delete may name.
QueuedDeletes(r) == inv[r].del

RaceNext ==
    \/ \E r \in RunIds : TaskDispatch(r)
    \/ \E r \in RunIds : PurgeStart(r)
    \/ \E r \in RunIds : PurgeQuery(r)
    \/ \E r \in RunIds : \E d \in QueuedDeletes(r) : PurgeDeleteCommit(r, d)
    \/ \E r \in RunIds : PurgeFinish(r)
    \/ \E r \in RunIds : LoadFeedsOk(r)
    \/ \E r \in RunIds : MarkRunning(r)
    \/ \E r \in RunIds : FeedStart(r)
    \/ \E r \in RunIds : \E i \in FeedIdx(r) : FeedFetched(r, i)
    \/ \E r \in RunIds : \E i \in FeedIdx(r) : \E k \in WriteIdx(r, i) : WriteCommit(r, i, k)
    \/ \E r \in RunIds : \E i \in FeedIdx(r) : FeedComplete(r, i)
    \/ \E r \in RunIds : CloseWriter(r)
    \/ \E r \in RunIds : CloseOk(r)
    \/ \E r \in RunIds : FinalWrite(r)
    \/ \E r \in RunIds : HandlerReturn(r)

SpecRace == RaceInit /\ [][RaceNext]_vars

\* ------------------------------------------------------------------ A LONG CLEANUP
\* Expired jobs, a page's worth or one more, each with its own freshness
\* timestamp, and one job at the cutoff.
ExpiredJob(k) == [OldDoc EXCEPT !.docId = k, !.jobId = ToString(k), !.updatedAtTs = k]

ExpiredJobs(n) == {ExpiredJob(k) : k \in 1..n}

RetainedJob == [ExpiredJob(0) EXCEPT !.updatedAtTs = cutoffTimestampRetentionNow(T0)]

LongCleanupInit ==
    /\ now = T0
    /\ fx = FxIdle
    /\ feedsCol = [u \in Users |-> <<>>]
    /\ \E n \in {CLEANUP_QUERY_LIMIT, CLEANUP_QUERY_LIMIT + 1} :
         jobs = ExpiredJobs(n) \cup {RetainedJob}
    /\ companies = {}
    /\ fetchRuns = [r \in {1} |-> EnqueuedRun("u1", "cleanup_scheduled")]
    /\ tasks = [r \in {1} |-> QueuedTask("purgeUserOldJobsTaskV2", "u1", "cleanup_scheduled")]
    /\ inv = [r \in {1} |-> InvIdle]
    /\ resp = NoResp

\* The writer sends the queued deletes in the order of their documents.
NextQueued(r) == CHOOSE d \in inv[r].del : \A e \in inv[r].del : d <= e

\* The two ways the page loop and the writer are followed: the next page is
\* read before the writer has applied any delete of the last full page (while
\* the count is under MaxDeleted), or once the writer has applied them all.
LoopFollowed(r) ==
    \/ inv[r].del = {}
    \/ Cardinality(inv[r].del) = CLEANUP_QUERY_LIMIT /\ inv[r].deleted < MaxDeleted

LongCleanupNext ==
    \/ \E r \in RunIds : TaskDispatch(r)
    \/ \E r \in RunIds : PurgeStart(r)
    \/ \E r \in RunIds : LoopFollowed(r) /\ PurgeQuery(r)
    \/ \E r \in RunIds : inv[r].del # {} /\ PurgeDeleteCommit(r, NextQueued(r))
    \/ \E r \in RunIds : PurgeFinish(r)
    \/ \E r \in RunIds : HandlerReturn(r)

\* The task is delivered, the handler's awaits resolve and the writer applies
\* what is queued.
LongCleanupFairness ==
    /\ WF_vars(\E r \in RunIds : TaskDispatch(r))
    /\ WF_vars(\E r \in RunIds : PurgeStart(r))
    /\ WF_vars(\E r \in RunIds : LoopFollowed(r) /\ PurgeQuery(r))
    /\ WF_vars(\E r \in RunIds : inv[r].del # {} /\ PurgeDeleteCommit(r, NextQueued(r)))
    /\ WF_vars(\E r \in RunIds : PurgeFinish(r))
    /\ WF_vars(\E r \in RunIds : HandlerReturn(r))

SpecLongCleanup == LongCleanupInit /\ [][LongCleanupNext]_vars /\ LongCleanupFairness

\* ------------------------------------------------------------------ THE LIFE OF ONE RUN
\* enqueueUserRun has created the record of a run of user u1 and awaits the
\* queue's answer; the user has one feed.
LifeInit ==
    /\ now = T0
    /\ fx = FxIdle
    /\ feedsCol = [u \in Users |-> RaceFeedDocs]
    /\ jobs = {}
    /\ companies = {}
    /\ \E runType \in {"manual", "scheduled"} :
         /\ fetchRuns = [r \in {1} |-> EnqueuedRun("u1", runType)]
         /\ tasks = [r \in {1} |->
                       [QueuedTask("pollUserTaskV2", "u1", runType) EXCEPT !.st = "enqueueing"]]
    /\ inv = [r \in {1} |-> InvIdle]
    /\ resp = NoResp

\* What the queue, the handler and the store do once they are asked to.
LifeProgress ==
    \/ \E r \in RunIds : EnqueueOk(r)
    \/ \E r \in RunIds : EnqueueFail(r)
    \/ \E r \in RunIds : TaskDispatch(r)
    \/ \E r \in RunIds : LoadFeedsOk(r)
    \/ \E r \in RunIds : LoadFeedsFail(r)
    \/ \E r \in RunIds : MarkRunning(r)
    \/ \E r \in RunIds : FeedStart(r)
    \/ \E r \in RunIds : \E i \in FeedIdx(r) : FeedFetched(r, i)
    \/ \E r \in RunIds : \E i \in FeedIdx(r) : \E k \in WriteIdx(r, i) : WriteCommit(r, i, k)
    \/ \E r \in RunIds : \E i \in FeedIdx(r) : FeedComplete(r, i)
    \/ \E r \in RunIds : CloseWriter(r)
    \/ \E r \in RunIds : CloseOk(r)
    \/ \E r \in RunIds : CloseFail(r)
    \/ \E r \in RunIds : FinalWrite(r)
    \/ \E r \in RunIds : InnerCatch(r)
    \/ \E r \in RunIds : HandlerCatch(r)
    \/ \E r \in RunIds : HandlerReturn(r)
    \/ \E r \in RunIds : PlatformRetry(r)

LifeNext ==
    \/ LifeProgress
    \/ \E r \in RunIds : InvocationTimeout(r)

\* The queue delivers what is enqueued, every await of the handler is
\* answered (a fetch returns or times out, the store answers), and a thrown
\* attempt is taken back by the platform. Whether an invocation outlives its
\* time budget is left open.
LifeFairness == WF_vars(LifeProgress)

SpecLife == LifeInit /\ [][LifeNext]_vars /\ LifeFairness

\* ------------------------------------------------------------------ A CLEANUP AND ITS COUNT
\* The store holds exactly one page's worth of expired jobs and one job at
\* the cutoff when the cleanup is delivered; nothing else writes to it.
PurgeCountDocs == ExpiredJobs(CLEANUP_QUERY_LIMIT) \cup {RetainedJob}

PurgeCountInit ==
    /\ now = T0
    /\ fx = FxIdle
    /\ feedsCol = [u \in Users |-> <<>>]
    /\ jobs = PurgeCountDocs
    /\ companies = {}
    /\ \E runType \in {"cleanup_scheduled", "cleanup_manual"} :
         /\ fetchRuns = [r \in {1} |-> EnqueuedRun("u1", runType)]
         /\ tasks = [r \in {1} |-> QueuedTask("purgeUserOldJobsTaskV2", "u1", runType)]
    /\ inv = [r \in {1} |-> InvIdle]
    /\ resp = NoResp

PurgeCountNext ==
    \/ \E r \in RunIds : TaskDispatch(r)
    \/ \E r \in RunIds : PurgeStart(r)
    \/ \E r \in RunIds : LoopFollowed(r) /\ PurgeQuery(r)
    \/ \E r \in RunIds : inv[r].del # {} /\ PurgeDeleteCommit(r, NextQueued(r))
    \/ \E r \in RunIds : PurgeFinish(r)
    \/ \E r \in RunIds : HandlerReturn(r)

SpecPurgeCount == PurgeCountInit /\ [][PurgeCountNext]_vars

\* ------------------------------------------------------------------ A RUN OVER MANY FEEDS
\* A user with more failing feeds than a run keeps error samples for: the
\* hosts of the first eleven answer with no JSON, the gamma board answers
\* with an empty list or is unavailable; one more feed is switched off.
ManyFeedDocs ==
    [k \in 1..(MAX_ERROR_SAMPLES + 3) |->
        FeedDoc(ToString(k), "",
                IF k >= MAX_ERROR_SAMPLES + 2 THEN UrlGamma
                ELSE IF k % 2 = 1 THEN UrlOther ELSE UrlTokened,
                IF k = MAX_ERROR_SAMPLES + 3 THEN "false" ELSE "true")]

ManyInit ==
    /\ now = T0
    /\ fx = FxIdle
    /\ feedsCol = [u \in Users |-> ManyFeedDocs]
    /\ jobs = {}
    /\ companies = {}
    /\ fetchRuns = [r \in {1} |-> EnqueuedRun("u1", "scheduled")]
    /\ tasks = [r \in {1} |-> QueuedTask("pollUserTaskV2", "u1", "scheduled")]
    /\ inv = [r \in {1} |-> InvIdle]
    /\ resp = NoResp

ManyNext ==
    \/ \E r \in RunIds : TaskDispatch(r)
    \/ \E r \in RunIds : LoadFeedsOk(r)
    \/ \E r \in RunIds : MarkRunning(r)
    \/ \E r \in RunIds : FeedStart(r)
    \/ \E r \in RunIds : \E i \in FeedIdx(r) : FeedFetched(r, i)
    \/ \E r \in RunIds : \E i \in FeedIdx(r) : FeedComplete(r, i)
    \/ \E r \in RunIds : CloseWriter(r)
    \/ \E r \in RunIds : CloseOk(r)
    \/ \E r \in RunIds : FinalWrite(r)
    \/ \E r \in RunIds : HandlerReturn(r)

SpecMany == ManyInit /\ [][ManyNext]_vars

\* ------------------------------------------------------------------ ONE RUN AND ITS WRITES
\* One ingestion of one board that lists one or three jobs, with a store
\* that may refuse a create.
CountInit ==
    /\ now = T0
    /\ fx = FxIdle
    /\ feedsCol = [u \in Users |-> IngestFeedDocs]
    /\ jobs \in {{}, {PriorDoc}}
    /\ companies = {}
    /\ fetchRuns = [r \in {1} |-> EnqueuedRun("u1", "scheduled")]
    /\ tasks = [r \in {1} |-> QueuedTask("pollUserTaskV2", "u1", "scheduled")]
    /\ inv = [r \in {1} |-> InvIdle]
    /\ resp = NoResp

CountNext ==
    \/ \E r \in RunIds : TaskDispatch(r)
    \/ \E r \in RunIds : LoadFeedsOk(r)
    \/ \E r \in RunIds : MarkRunning(r)
    \/ \E r \in RunIds : FeedStart(r)
    \/ \E r \in RunIds : \E i \in FeedIdx(r) : FeedFetched(r, i)
    \/ \E r \in RunIds : \E i \in FeedIdx(r) : \E k \in WriteIdx(r, i) : WriteCommit(r, i, k)
    \/ \E r \in RunIds : \E i \in FeedIdx(r) : \E k \in WriteIdx(r, i) : WriteError(r, i, k)
    \/ \E r \in RunIds : \E i \in FeedIdx(r) : FeedComplete(r, i)
    \/ \E r \in RunIds : \E i \in FeedIdx(r) : FeedWriteRejected(r, i)
    \/ \E r \in RunIds : CloseWriter(r)
    \/ \E r \in RunIds : CloseOk(r)
    \/ \E r \in RunIds : FinalWrite(r)
    \/ \E r \in RunIds : HandlerReturn(r)

SpecCount == CountInit /\ [][CountNext]_vars

\* ------------------------------------------------------------------ THE UPDATE WINDOW, APPLIED
\* The timestamps a board may give a job, around the window that ends at T0:
\* none, just before the cutoff, at the cutoff, at T0, after T0.
WindowIsos == {NoIso, Iso(W0 - 1), Iso(W0), Iso(T0), Iso(T0 + 1)}

\* One raw job of one source is put to isJobWithinUpdateWindow at T0.
WindowInit ==
    /\ now = T0
    /\ fx = FxIdle
    /\ feedsCol = [u \in Users |-> <<>>]
    /\ jobs = {}
    /\ companies = {}
    /\ fetchRuns = [r \in {1} |-> NoRun]
    /\ tasks = [r \in {1} |-> NoTask]
    /\ \E source \in {"greenhouse", "ashby", "unknown"} :
       \E upd \in WindowIsos, first \in WindowIsos, pub \in WindowIsos :
          inv = [source |-> source, jobRaw |-> RawJob("7", upd, first, pub, LocEmpty, "absent")]
    /\ resp = NoResp

WindowApply ==
    /\ resp = NoResp
    /\ resp' = [fn |-> "isJobWithinUpdateWindow",
                result |-> isJobWithinUpdateWindow(inv.source, inv.jobRaw, now)]
    /\ UNCHANGED <<now, fx, feedsCol, jobs, companies, fetchRuns, tasks, inv>>

WindowNext ==
    \/ WindowApply

SpecWindow == WindowInit /\ [][WindowNext]_vars

\* ------------------------------------------------------------------ THE LOCATION FILTER, APPLIED
FilterLocs ==
    {LocEmpty, LocRemoteUS, LocLondon, LocSF, LocAustin, LocToronto, LocPennycross,
     LocRemoteUK, LocChicago, LocSeattle, LocBangalore, LocRemote}

\* Contents the configured REMOTE_EXCLUDE_SUBSTRINGS may have.
ExcludeLists == {{}, {"united kingdom"}, {"us", "canada"}}

\* One raw job with one location is put to the location filter of
\* processOneFeed and to that of the paged worker.
LocationInit ==
    /\ now = T0
    /\ fx = FxIdle
    /\ feedsCol = [u \in Users |-> <<>>]
    /\ jobs = {}
    /\ companies = {}
    /\ fetchRuns = [r \in {1} |-> NoRun]
    /\ tasks = [r \in {1} |-> NoTask]
    /\ \E loc \in FilterLocs, rem \in {"true", "false", "absent"}, exclude \in ExcludeLists :
          inv = [jobRaw |-> RawJob("7", Iso(T0), NoIso, NoIso, loc, rem), exclude |-> exclude]
    /\ resp = NoResp

LocationApply ==
    /\ resp = NoResp
    /\ LET j   == inv.jobRaw
           loc == j.location
       IN  resp' = [fn |-> "shouldKeepJobByLocation",
                    kept |-> (loc.text = "" \/ shouldKeepJobByLocationWith(loc, j, inv.exclude)),
                    isUS |-> isUSLocation(loc),
                    pagedKept |-> PagedIsUSLocation(loc)]
    /\ UNCHANGED <<now, fx, feedsCol, jobs, companies, fetchRuns, tasks, inv>>

LocationNext ==
    \/ LocationApply

SpecLocation == LocationInit /\ [][LocationNext]_vars

\* ------------------------------------------------------------------ METADATA NORMALIZATION
\* A string is a sequence of characters; the model's alphabet is the blank
\* and the letter x.
RECURSIVE TrimStart(_)
TrimStart(str) == IF str # <<>> /\ Head(str) = " " THEN TrimStart(Tail(str)) ELSE str

RECURSIVE TrimEnd(_)
TrimEnd(str) ==
    IF str # <<>> /\ str[Len(str)] = " " THEN TrimEnd(SubSeq(str, 1, Len(str) - 1)) ELSE str

\* String.prototype.trim
trim(str) == TrimEnd(TrimStart(str))

\* A value of a metadata item. t is "null", "undefined", "string" (str),
\* "array" (arr, its elements strings) or "object" (unit, amount; amountNum
\* says that amount is a number, not a string of digits).
MdValue(t, str, arr) ==
    [t |-> t, str |-> str, arr |-> arr, unit |-> "", amount |-> 0, amountNum |-> FALSE]

MdMoney(unit, amount, amountNum) ==
    [t |-> "object", str |-> <<>>, arr |-> <<>>, unit |-> unit, amount |-> amount,
     amountNum |-> amountNum]

\* A metadata item; name "" stands for a missing name.
MdItem(name, valueType, value) == [name |-> name, value_type |-> valueType, value |-> value]

\* value.map((v) => typeof v === "string" ? v.trim() : v).filter(Boolean)
TrimmedNonEmpty(arr) == SelectSeq([i \in DOMAIN arr |-> trim(arr[i])], LAMBDA v : v # <<>>)

\* The value normalizeMetadata stores for an item it keeps.
NormalizedValue(item) ==
    LET value == item.value
    IN  IF item.value_type = "currency" /\ value.t = "object"
        THEN MdMoney(IF value.unit # "" THEN value.unit ELSE "USD", value.amount, TRUE)
        ELSE IF value.t = "array" THEN MdValue("array", <<>>, TrimmedNonEmpty(value.arr))
        ELSE IF value.t = "object" THEN value
        ELSE IF value.t = "string" THEN MdValue("string", trim(value.str), <<>>)
        ELSE value

\* The tests of the loop that skip an item.
MdSkipped(item) ==
    \/ item.name = ""
    \/ item.value.t \in {"null", "undefined"}
    \/ item.value.t = "string" /\ trim(item.value.str) = <<>>
    \/ item.value.t = "array" /\ item.value.arr = <<>>

\* The loop of normalizeMetadata over the items from the i-th on, with the
\* kv object and the list built so far.
RECURSIVE MdLoop(_, _, _, _)
MdLoop(arr, i, kv, list) ==
    IF i > Len(arr) THEN [metadataKV |-> kv, metadataList |-> list]
    ELSE LET item == arr[i]
         IN  IF MdSkipped(item) THEN MdLoop(arr, i + 1, kv, list)
             ELSE IF item.name \notin DOMAIN kv
             THEN MdLoop(arr, i + 1,
                         [n \in DOMAIN kv \cup {item.name} |->
                             IF n = item.name THEN NormalizedValue(item) ELSE kv[n]],
                         Append(list, [name |-> item.name, value |-> NormalizedValue(item)]))
             ELSE MdLoop(arr, i + 1, kv, list)

\* metadataArr is [isArray |-> ..., items |-> ...]
normalizeMetadata(metadataArr) ==
    IF ~metadataArr.isArray THEN [metadataKV |-> <<>>, metadataList |-> <<>>]
    ELSE MdLoop(metadataArr.items, 1, <<>>, <<>>)

\* The metadata a board may give a job: up to MaxItems items.
MdValues ==
    {MdValue("null", <<>>, <<>>), MdValue("undefined", <<>>, <<>>),
     MdValue("string", <<>>, <<>>), MdValue("string", <<" ">>, <<>>),
     MdValue("string", <<"x">>, <<>>), MdValue("string", <<" ", "x", " ">>, <<>>),
     MdValue("array", <<>>, <<>>), MdValue("array", <<>>, <<<<" ">>>>),
     MdValue("array", <<>>, <<<<"x", " ">>, <<>>>>),
     MdMoney("", 12, FALSE)}

MdItems ==
    {MdItem(name, "short_text", value) : name \in {"", "a", "b"}, value \in MdValues}
        \cup {MdItem(name, "currency", MdMoney("", 12, FALSE)) : name \in {"", "a", "b"}}

MetadataInit ==
    /\ now = T0
    /\ fx = FxIdle
    /\ feedsCol = [u \in Users |-> <<>>]
    /\ jobs = {}
    /\ companies = {}
    /\ fetchRuns = [r \in {1} |-> NoRun]
    /\ tasks = [r \in {1} |-> NoTask]
    /\ \/ inv = [isArray |-> FALSE, items |-> <<>>]
       \/ \E n \in 0..MaxItems : \E items \in [1..n -> MdItems] :
             inv = [isArray |-> TRUE, items |-> items]
    /\ resp = NoResp

MetadataApply ==
    /\ resp = NoResp
    /\ resp' = [fn |-> "normalizeMetadata", result |-> normalizeMetadata(inv)]
    /\ UNCHANGED <<now, fx, feedsCol, jobs, companies, fetchRuns, tasks, inv>>

MetadataNext ==
    \/ MetadataApply

SpecMetadata == MetadataInit /\ [][MetadataNext]_vars

\* ------------------------------------------------------------------ CONTENT CLEANING
\* A job's content is a sequence of pieces: a run of text, an <img> tag, or
\* a closed anchor <a href=...>inner</a>. A piece of text has its length; an
\* anchor has the quoting of its href ("double", "single", "none"), the host
\* of its href, the length of its opening tag and of its inner text. The
\* content arrives with its markup entity-encoded (&lt;a href=&quot;...) or
\* not.
HtmlText(len) == [kind |-> "text", len |-> len, quote |-> "", host |-> "", open |-> 0, inner |-> 0]
HtmlImg == [kind |-> "img", len |-> 20, quote |-> "", host |-> "", open |-> 20, inner |-> 0]
HtmlAnchor(quote, host) ==
    [kind |-> "a", len |-> 49, quote |-> quote, host |-> host, open |-> 40, inner |-> 5]

\* What is left of a piece that capStr has cut: a run of characters, or an
\* anchor's opening tag with some of its inner text.
HtmlCut(piece, n) ==
    IF piece.kind = "a" /\ n >= piece.open
    THEN [piece EXCEPT !.len = n, !.inner = n - piece.open]
    ELSE HtmlText(n)

trackerDomains ==
    {"click.appcast.io", "track.jobadx.com", "jobadx.com", "appcast.io",
     "doubleclick.net", "googlesyndication.com"}

\* The tracker domains a host includes as a substring.
HostIncludes(host) ==
    CASE host = "click.appcast.io" -> {"click.appcast.io", "appcast.io"}
      [] host = "ad.doubleclick.net" -> {"doubleclick.net"}
      [] OTHER -> {}

\* decodeHtmlEntities: encoded markup becomes markup.
decodeHtmlEntities(content) == [content EXCEPT !.encoded = FALSE]

\* The pattern <a\b[^>]*href=["'][^"']*domain[^"']*["'][^>]*>([\s\S]*?)<\/a>
\* matches the anchor.
AnchorMatches(piece, d) ==
    /\ piece.kind = "a"
    /\ piece.quote \in {"double", "single"}
    /\ d \in HostIncludes(piece.host)

\* removeTracking: every <img> becomes a blank, every matched anchor its
\* inner text.
removeTracking(content) ==
    IF content.encoded THEN content
    ELSE [content EXCEPT !.pieces =
            [i \in DOMAIN content.pieces |->
                LET piece == content.pieces[i]
                IN  IF piece.kind = "img" THEN HtmlText(1)
                    ELSE IF \E d \in trackerDomains : AnchorMatches(piece, d)
                    THEN HtmlText(piece.inner)
                    ELSE piece]]

RECURSIVE CapPieces(_, _)
CapPieces(pieces, n) ==
    IF pieces = <<>> \/ n = 0 THEN <<>>
    ELSE IF Head(pieces).len <= n
    THEN <<Head(pieces)>> \o CapPieces(Tail(pieces), n - Head(pieces).len)
    ELSE <<HtmlCut(Head(pieces), n)>>

\* capStr(s, n)
capStr(content, n) == [content EXCEPT !.pieces = CapPieces(content.pieces, n)]

normalizeContentHtmlClean(rawContent) ==
    capStr(removeTracking(decodeHtmlEntities(rawContent)), MAX_HTML_CHARS)

HtmlPieces ==
    {HtmlText(10), HtmlText(MAX_HTML_CHARS - 45), HtmlImg}
        \cup {HtmlAnchor(quote, host) : quote \in {"double", "single", "none"},
                                        host \in {"click.appcast.io", "jobs.example.com"}}

ContentInit ==
    /\ now = T0
    /\ fx = FxIdle
    /\ feedsCol = [u \in Users |-> <<>>]
    /\ jobs = {}
    /\ companies = {}
    /\ fetchRuns = [r \in {1} |-> NoRun]
    /\ tasks = [r \in {1} |-> NoTask]
    /\ \E encoded \in BOOLEAN, n \in 0..MaxPieces : \E pieces \in [1..n -> HtmlPieces] :
          inv = [encoded |-> encoded, pieces |-> pieces]
    /\ resp = NoResp

ContentApply ==
    /\ resp = NoResp
    /\ resp' = [fn |-> "normalizeContentHtmlClean", result |-> normalizeContentHtmlClean(inv)]
    /\ UNCHANGED <<now, fx, feedsCol, jobs, companies, fetchRuns, tasks, inv>>

ContentNext ==
    \/ ContentApply

SpecContent == ContentInit /\ [][ContentNext]_vars

\* ------------------------------------------------------------------ ONE SCHEDULER TICK
\* One invocation of pollGreenhouseFeedsV2 over three users; resp holds the
\* invocation: the users of usersSnap, those whose callback has begun, and
\* whether the handler has returned.
TickUsers == {"u1", "u2", "u3"}

\* const usersSnap = await db.collection("users").get()
ScheduledTickStart ==
    /\ resp = NoResp
    /\ resp' = [fn |-> "pollGreenhouseFeedsV2", pc |-> "running",
                users |-> DOMAIN feedsCol, begun |-> {}]
    /\ UNCHANGED <<now, fx, dbVars>>

\* The limiter runs the callback of user u: enqueueUserRun(u.id, "scheduled")
\* creates the run record and hands the task to the queue.
ScheduledTickEnqueue(u) ==
    /\ resp.fn = "pollGreenhouseFeedsV2"
    /\ resp.pc = "running"
    /\ u \in resp.users \ resp.begun
    /\ EnqueueCreate(u, "scheduled", "pollUserTaskV2")
    /\ resp' = [resp EXCEPT !.begun = @ \cup {u}]

\* The callbacks of a tick whose enqueue has not been answered yet.
TickOpen == {r \in RunIds : tasks[r].st = "enqueueing"}

ScheduledTickReturn_OnFirstThrow ==
    /\ resp.fn = "pollGreenhouseFeedsV2"
    /\ resp.pc = "running"
    /\ \/ resp.begun = resp.users /\ TickOpen = {}
       \/ \E r \in RunIds : tasks[r].st = "enqueue_threw"
    /\ resp' = [resp EXCEPT !.pc = "returned"]
    /\ UNCHANGED <<now, fx, dbVars>>

\* Promise.all resolves once every callback has ended (a thrown enqueue is
\* caught and logged inside the callback): return null.
ScheduledTickReturn ==
    /\ resp.fn = "pollGreenhouseFeedsV2"
    /\ resp.pc = "running"
    /\ resp.begun = resp.users
    /\ TickOpen = {}
    /\ resp' = [resp EXCEPT !.pc = "returned"]
    /\ UNCHANGED <<now, fx, dbVars>>

TickInit ==
    /\ now = T0
    /\ fx = FxIdle
    /\ feedsCol = [u \in TickUsers |-> TriggerFeedDocs]
    /\ jobs = {}
    /\ companies = {}
    /\ fetchRuns = [r \in 1..3 |-> NoRun]
    /\ tasks = [r \in 1..3 |-> NoTask]
    /\ inv = [r \in 1..3 |-> InvIdle]
    /\ resp = NoResp

TickNext ==
    \/ ScheduledTickStart
    \/ \E u \in TickUsers : ScheduledTickEnqueue(u)
    \/ \E r \in RunIds : EnqueueOk(r)
    \/ \E r \in RunIds : EnqueueFail(r)
    \/ ScheduledTickReturn

SpecTick == TickInit /\ [][TickNext]_vars

\* ------------------------------------------------------------------ TWO BOARDS WITH UNDERSCORES
\* One ingestion for a user with the boards ab and ab__c, each listing one
\* job or none, with a store that may refuse a create.
KeyFeedDocs == <<FeedDoc("f1", "", UrlAb, "true"), FeedDoc("f2", "", UrlAbC, "true")>>

KeyInit ==
    /\ now = T0
    /\ fx = FxIdle
    /\ feedsCol = [u \in Users |-> KeyFeedDocs]
    /\ jobs \in {{}, {PriorDoc}}
    /\ companies = {}
    /\ fetchRuns = [r \in {1} |-> EnqueuedRun("u1", "scheduled")]
    /\ tasks = [r \in {1} |-> QueuedTask("pollUserTaskV2", "u1", "scheduled")]
    /\ inv = [r \in {1} |-> InvIdle]
    /\ resp = NoResp

KeyNext ==
    \/ \E r \in RunIds : TaskDispatch(r)
    \/ \E r \in RunIds : LoadFeedsOk(r)
    \/ \E r \in RunIds : MarkRunning(r)
    \/ \E r \in RunIds : FeedStart(r)
    \/ \E r \in RunIds : \E i \in FeedIdx(r) : FeedFetched(r, i)
    \/ \E r \in RunIds : \E i \in FeedIdx(r) : \E k \in WriteIdx(r, i) : WriteCommit(r, i, k)
    \/ \E r \in RunIds : \E i \in FeedIdx(r) : \E k \in WriteIdx(r, i) : WriteError(r, i, k)
    \/ \E r \in RunIds : \E i \in FeedIdx(r) : FeedComplete(r, i)
    \/ \E r \in RunIds : \E i \in FeedIdx(r) : FeedWriteRejected(r, i)
    \/ \E r \in RunIds : CloseWriter(r)
    \/ \E r \in RunIds : CloseOk(r)
    \/ \E r \in RunIds : FinalWrite(r)
    \/ \E r \in RunIds : HandlerReturn(r)

SpecKey == KeyInit /\ [][KeyNext]_vars

\* ------------------------------------------------------------------ THE PAGED WORKER
\* The worker of src/unnamed/part_000: one task processes one page of a user's
\* feeds and enqueues the task of the next page.
FEEDS_PER_TASK == 100
PAGED_MAX_ATTEMPTS == 3
PAGED_ERROR_SAMPLES == 5
PAGED_PROGRESS_EVERY == 20

\* chunkArray(arr, size)
RECURSIVE chunkArray(_, _)
chunkArray(arr, size) ==
    IF arr = <<>> THEN <<>>
    ELSE IF Len(arr) <= size THEN <<arr>>
    ELSE <<SubSeq(arr, 1, size)>> \o chunkArray(SubSeq(arr, size + 1, Len(arr)), size)

\* A document of users/{uid}/feeds as the paged worker reads and writes it.
PagedFeedDoc(id, url, archivedAt) ==
    [id |-> id, url |-> url, archivedAt |-> archivedAt,
     lastCheckedAt |-> Null, lastNewCount |-> Null, lastError |-> NoMsg]

\* One feed more than a page holds, and an archived one among them.
PagedFeedDocs ==
    [k \in 1..(FEEDS_PER_TASK + 2) |->
        PagedFeedDoc(k, IF k \in {1, FEEDS_PER_TASK + 2} THEN UrlGamma ELSE UrlBeta,
                     IF k = 2 THEN W0 ELSE Null)]

\* fetchJson of the paged worker: the parsed answer, or 'Fetch failed <status> for <url>'.
PagedFetchFailed(status, url) ==
    <<Text("Fetch failed", 12, 0), Text(ToString(status), 3, 0), Text("for", 3, 0), url>>

\* What the hosts answer: every board of this user is empty; the gamma board
\* is at times unavailable.
PagedWeb(url) ==
    IF url = UrlGamma
    THEN {[ok |-> TRUE, jobs |-> <<>>, msg |-> NoMsg],
          [ok |-> FALSE, jobs |-> <<>>, msg |-> PagedFetchFailed(503, url)]}
    ELSE {[ok |-> TRUE, jobs |-> <<>>, msg |-> NoMsg]}

\* A run record that does not exist, and the one runRef.set writes.
NoPagedRun ==
    [exists |-> FALSE, runType |-> "", startedAt |-> Null, finishedAt |-> Null,
     durationMs |-> Null, feedsCount |-> 0, feedsProcessed |-> 0, newCount |-> 0,
     errorsCount |-> 0, errorSamples |-> <<>>, pagesTotal |-> 0, pagesDone |-> 0]

NewPagedRun(runType, feedsCount, totalPages, at) ==
    [NoPagedRun EXCEPT !.exists = TRUE, !.runType = runType, !.startedAt = at,
                       !.feedsCount = feedsCount, !.pagesTotal = totalPages]

\* The payload of a task of the queue, with the platform's delivery state.
NoPagedTask ==
    [st |-> "none", attempts |-> 0, uid |-> "", runType |-> "", pageIndex |-> 0, runId |-> Null]

PagedTask(uid, runType, pageIndex, runId) ==
    [st |-> "queued", attempts |-> 0, uid |-> uid, runType |-> runType,
     pageIndex |-> pageIndex, runId |-> runId]

\* The create the feed loop is awaiting: job k of the board, how often it has
\* failed, the code of its last failure.
NoPagedWrite == [st |-> "none", k |-> 0, failedAttempts |-> 0, code |-> 0, docId |-> ""]

PagedIdle ==
    [pc |-> "idle", runId |-> Null, totalPages |-> 0, pageFeeds |-> <<>>,
     pageFeedsProcessed |-> 0, pageNewCount |-> 0, totalNewCount |-> 0,
     errorsCount |-> 0, errorSamples |-> <<>>, startedAtMs |-> Null,
     w |-> NoPagedWrite, feedNewCount |-> 0]

\* userRef.collection("fetchRuns").doc(): a fresh document id.
FreshPagedRunId == CHOOSE r \in DOMAIN fetchRuns :
    /\ ~fetchRuns[r].exists
    /\ \A q \in DOMAIN fetchRuns : ~fetchRuns[q].exists => r <= q

FreshPagedTaskId == CHOOSE t \in DOMAIN tasks :
    /\ tasks[t].st = "none"
    /\ \A q \in DOMAIN tasks : tasks[q].st = "none" => t <= q

\* feeds/{id}.set(fields, {merge: true})
PagedSetFeed(docs, id, checkedAt, newCount, error) ==
    [i \in DOMAIN docs |->
        IF docs[i].id = id
        THEN [docs[i] EXCEPT !.lastCheckedAt = checkedAt, !.lastNewCount = newCount,
                             !.lastError = error]
        ELSE docs[i]]

\* The task is delivered and the handler runs up to the page's feeds: the
\* scheduler flag, the feeds, the pages, the run record.
PagedStart(t) ==
    /\ tasks[t].st = "queued"
    /\ LET d              == tasks[t]
           activeFeedsAll == SelectSeq(feedsCol[d.uid], LAMBDA f : f.archivedAt = Null)
           feedPages      == chunkArray(activeFeedsAll, FEEDS_PER_TASK)
           totalPages     == IF Len(feedPages) = 0 THEN 1 ELSE Len(feedPages)
           pageFeeds      == IF d.pageIndex + 1 \in 1..Len(feedPages)
                             THEN feedPages[d.pageIndex + 1] ELSE <<>>
           runId          == IF d.runId = Null THEN FreshPagedRunId ELSE d.runId
           runs           == IF d.runId = Null
                             THEN [fetchRuns EXCEPT ![runId] =
                                     NewPagedRun(d.runType, Len(activeFeedsAll), totalPages, now)]
                             ELSE fetchRuns
       IN  IF d.runType = "scheduled" /\ UsersCol[d.uid].schedulerEnabled = "false"
           THEN /\ tasks' = [tasks EXCEPT ![t].st = "done", ![t].attempts = @ + 1]
                /\ UNCHANGED <<fetchRuns, inv>>
           ELSE /\ d.runId = Null => \E r \in DOMAIN fetchRuns : ~fetchRuns[r].exists
                /\ tasks' = [tasks EXCEPT ![t].st = "running", ![t].attempts = @ + 1]
                /\ fetchRuns' = runs
                /\ inv' = [inv EXCEPT ![t] =
                     [PagedIdle EXCEPT
                        !.pc = "feeds", !.runId = runId, !.totalPages = totalPages,
                        !.pageFeeds = [i \in DOMAIN pageFeeds |->
                                         [id |-> pageFeeds[i].id, url |-> pageFeeds[i].url]],
                        !.totalNewCount = IF runs[runId].exists THEN runs[runId].newCount ELSE 0,
                        !.errorsCount = IF runs[runId].exists THEN runs[runId].errorsCount ELSE 0,
                        !.errorSamples = IF runs[runId].exists THEN runs[runId].errorSamples ELSE <<>>,
                        !.startedAtMs = now]]
    /\ UNCHANGED <<now, fx, feedsCol, jobs, companies, resp>>

\* One feed of the page is fetched and answered for: its (empty) job list is
\* walked, the feed document is stamped, the counters move, and every
\* twentieth feed the run record is brought up to date.
PagedFeedProcessed(t) ==
    /\ inv[t].pc = "feeds"
    /\ inv[t].pageFeedsProcessed < Len(inv[t].pageFeeds)
    /\ LET feed == inv[t].pageFeeds[inv[t].pageFeedsProcessed + 1]
           uid  == tasks[t].uid
       IN  \E res \in PagedWeb(feed.url) :
             LET feedNewCount == Len(res.jobs)
                 errs    == IF res.ok THEN inv[t].errorsCount ELSE inv[t].errorsCount + 1
                 samples == IF ~res.ok /\ Len(inv[t].errorSamples) < PAGED_ERROR_SAMPLES
                            THEN Append(inv[t].errorSamples, [url |-> feed.url, message |-> res.msg])
                            ELSE inv[t].errorSamples
                 newCnt  == IF res.ok THEN inv[t].pageNewCount + feedNewCount
                            ELSE inv[t].pageNewCount
                 n       == inv[t].pageFeedsProcessed + 1
             IN  /\ feedsCol' = [feedsCol EXCEPT ![uid] =
                        IF res.ok THEN PagedSetFeed(@, feed.id, now, feedNewCount, NoMsg)
                        ELSE [i \in DOMAIN @ |->
                                IF @[i].id = feed.id
                                THEN [@[i] EXCEPT !.lastCheckedAt = now, !.lastError = res.msg]
                                ELSE @[i]]]
                 /\ inv' = [inv EXCEPT ![t].pageFeedsProcessed = n, ![t].errorsCount = errs,
                                       ![t].errorSamples = samples, ![t].pageNewCount = newCnt]
                 /\ fetchRuns' =
                        IF n % PAGED_PROGRESS_EVERY = 0
                        THEN [fetchRuns EXCEPT
                                ![inv[t].runId].newCount = inv[t].totalNewCount + newCnt,
                                ![inv[t].runId].errorsCount = errs,
                                ![inv[t].runId].errorSamples = samples]
                        ELSE fetchRuns
    /\ UNCHANGED <<now, fx, jobs, companies, tasks, resp>>

\* All feeds of the page are through: writer.close(), the run record is read
\* and the page's totals are added to it; after the last page it is finished.
PagedPageUpdate(t) ==
    /\ inv[t].pc = "feeds"
    /\ inv[t].pageFeedsProcessed = Len(inv[t].pageFeeds)
    /\ LET r        == inv[t].runId
           nowData  == fetchRuns[r]
           lastPage == tasks[t].pageIndex >= inv[t].totalPages - 1
       IN  /\ fetchRuns' = [fetchRuns EXCEPT ![r] =
                  [nowData EXCEPT
                     !.feedsProcessed = nowData.feedsProcessed + inv[t].pageFeedsProcessed,
                     !.newCount = nowData.newCount + inv[t].pageNewCount,
                     !.errorsCount = inv[t].errorsCount,
                     !.errorSamples = inv[t].errorSamples,
                     !.pagesDone = nowData.pagesDone + 1,
                     !.finishedAt = IF lastPage THEN now ELSE @,
                     !.durationMs = IF lastPage THEN now - inv[t].startedAtMs ELSE @]]
           /\ inv' = [inv EXCEPT ![t].pc = IF lastPage THEN "return" ELSE "enqueue"]
    /\ UNCHANGED <<now, fx, feedsCol, jobs, companies, tasks, resp>>

\* enqueueUserPollTask({uid, runType, pageIndex + 1, runId}) is accepted and
\* the handler returns.
PagedContinue(t) ==
    /\ inv[t].pc = "enqueue"
    /\ \E q \in DOMAIN tasks : tasks[q].st = "none"
    /\ tasks' = [tasks EXCEPT
                   ![t].st = "done",
                   ![FreshPagedTaskId] = PagedTask(tasks[t].uid, tasks[t].runType,
                                                   tasks[t].pageIndex + 1, inv[t].runId)]
    /\ inv' = [inv EXCEPT ![t] = PagedIdle]
    /\ UNCHANGED <<now, fx, feedsCol, jobs, companies, fetchRuns, resp>>

\* The queue refuses the task: the handler rejects and the platform delivers
\* the same payload again, up to maxAttempts times.
PagedContinueFail(t) ==
    /\ inv[t].pc = "enqueue"
    /\ tasks' = [tasks EXCEPT
                   ![t].st = IF tasks[t].attempts < PAGED_MAX_ATTEMPTS THEN "queued" ELSE "dead"]
    /\ inv' = [inv EXCEPT ![t] = PagedIdle]
    /\ UNCHANGED <<now, fx, feedsCol, jobs, companies, fetchRuns, resp>>

\* The task of the last page returns.
PagedReturn(t) ==
    /\ inv[t].pc = "return"
    /\ tasks' = [tasks EXCEPT ![t].st = "done"]
    /\ inv' = [inv EXCEPT ![t] = PagedIdle]
    /\ UNCHANGED <<now, fx, feedsCol, jobs, companies, fetchRuns, resp>>

\* ------------------------------------------------------------------ THE PAGED WORKER'S CREATES
\* isAlreadyExistsError(err), by the code of the store's answer.
isAlreadyExistsError(code) == code = 6

\* writer.onWriteError of the paged worker: TRUE = send the write again.
PagedOnWriteError(code, failedAttempts) ==
    IF isAlreadyExistsError(code) THEN TRUE
    ELSE failedAttempts < 3

\* The jobs the acme board lists, all of them in the United States, and the
\* documents companies/{companyKey}/jobs/{jobKey} they are stored as.
PagedBoardJobs == <<"7", "8", "9">>

PagedJobDoc(uid, companyKey, jobKey) ==
    [docId |-> companyKey \o "/" \o jobKey, uid |-> uid, companyKey |-> companyKey,
     saved |-> FALSE]

\* The feed loop reaches the next job of the feed it is at: the company
\* document is set and writer.create of the job document is awaited.
PagedCreateQueued(t) ==
    /\ inv[t].pc = "feeds"
    /\ inv[t].pageFeedsProcessed < Len(inv[t].pageFeeds)
    /\ inv[t].w.st \in {"none", "created", "exists"}
    /\ inv[t].w.k < Len(PagedBoardJobs)
    /\ LET feed       == inv[t].pageFeeds[inv[t].pageFeedsProcessed + 1]
           companyKey == inferGreenhouseCompanyKeyFromUrl(feed.url)
           k          == inv[t].w.k + 1
       IN  /\ companies' = companies \cup {[uid |-> tasks[t].uid, companyKey |-> companyKey]}
           /\ inv' = [inv EXCEPT
                 ![t].feedNewCount = IF inv[t].w.st = "created" THEN @ + 1 ELSE @,
                 ![t].w = [st |-> "queued", k |-> k, failedAttempts |-> 0, code |-> 0,
                           docId |-> PagedJobDoc(tasks[t].uid, companyKey, PagedBoardJobs[k]).docId]]
    /\ UNCHANGED <<now, fx, feedsCol, jobs, fetchRuns, tasks, resp>>

\* The store answers the awaited create: the document is written, or one
\* exists already and the error handler decides whether the create is sent
\* again or rejected to the feed loop.
PagedCreateAnswer(t) ==
    /\ inv[t].pc = "feeds"
    /\ inv[t].w.st = "queued"
    /\ LET feed       == inv[t].pageFeeds[inv[t].pageFeedsProcessed + 1]
           companyKey == inferGreenhouseCompanyKeyFromUrl(feed.url)
           doc        == PagedJobDoc(tasks[t].uid, companyKey, PagedBoardJobs[inv[t].w.k])
           n          == inv[t].w.failedAttempts + 1
       IN  IF \E d \in jobs : d.docId = doc.docId /\ d.uid = doc.uid
           THEN /\ PagedOnWriteError(6, n) => n <= MaxResends
                /\ inv' = [inv EXCEPT ![t].w.failedAttempts = n, ![t].w.code = 6,
                                      ![t].w.st = IF PagedOnWriteError(6, n)
                                                  THEN "queued" ELSE "exists"]
                /\ UNCHANGED jobs
           ELSE /\ jobs' = jobs \cup {doc}
                /\ inv' = [inv EXCEPT ![t].w.st = "created"]
    /\ UNCHANGED <<now, fx, feedsCol, companies, fetchRuns, tasks, resp>>

\* The last create of the feed has returned: the feed document is stamped
\* with the feed's new count and the page's counters move.
PagedFeedWritten(t) ==
    /\ inv[t].pc = "feeds"
    /\ inv[t].pageFeedsProcessed < Len(inv[t].pageFeeds)
    /\ inv[t].w.st \in {"created", "exists"}
    /\ inv[t].w.k = Len(PagedBoardJobs)
    /\ LET feed         == inv[t].pageFeeds[inv[t].pageFeedsProcessed + 1]
           feedNewCount == inv[t].feedNewCount + (IF inv[t].w.st = "created" THEN 1 ELSE 0)
           newCnt       == inv[t].pageNewCount + feedNewCount
           n            == inv[t].pageFeedsProcessed + 1
       IN  /\ feedsCol' = [feedsCol EXCEPT ![tasks[t].uid] =
                  PagedSetFeed(@, feed.id, now, feedNewCount, NoMsg)]
           /\ inv' = [inv EXCEPT ![t].pageFeedsProcessed = n, ![t].pageNewCount = newCnt,
                                 ![t].feedNewCount = 0, ![t].w = NoPagedWrite]
           /\ fetchRuns' =
                  IF n % PAGED_PROGRESS_EVERY = 0
                  THEN [fetchRuns EXCEPT
                          ![inv[t].runId].newCount = inv[t].totalNewCount + newCnt,
                          ![inv[t].runId].errorsCount = inv[t].errorsCount,
                          ![inv[t].runId].errorSamples = inv[t].errorSamples]
                  ELSE fetchRuns
    /\ UNCHANGED <<now, fx, jobs, companies, tasks, resp>>

\* Page 0 of user u2, whose one feed is the acme board; some of the board's
\* jobs may be stored already.
PagedCreateInit ==
    /\ now = T0
    /\ fx = FxIdle
    /\ feedsCol = [u \in {"u2"} |-> <<PagedFeedDoc(1, UrlGreenhouse, Null)>>]
    /\ jobs \in SUBSET {PagedJobDoc("u2", inferGreenhouseCompanyKeyFromUrl(UrlGreenhouse),
                                    PagedBoardJobs[k]) : k \in DOMAIN PagedBoardJobs}
    /\ companies = {}
    /\ fetchRuns = [r \in 1..PAGED_MAX_ATTEMPTS |-> NoPagedRun]
    /\ \E runType \in {"manual", "scheduled"} :
         tasks = [t \in 1..2 |-> IF t = 1 THEN PagedTask("u2", runType, 0, Null) ELSE NoPagedTask]
    /\ inv = [t \in 1..2 |-> PagedIdle]
    /\ resp = NoResp

PagedCreateNext ==
    \/ \E t \in DOMAIN tasks : PagedStart(t)
    \/ \E t \in DOMAIN tasks : PagedCreateQueued(t)
    \/ \E t \in DOMAIN tasks : PagedCreateAnswer(t)
    \/ \E t \in DOMAIN tasks : PagedFeedWritten(t)
    \/ \E t \in DOMAIN tasks : PagedPageUpdate(t)
    \/ \E t \in DOMAIN tasks : PagedReturn(t)

SpecPagedCreate == PagedCreateInit /\ [][PagedCreateNext]_vars

\* Page 0 of user u2 with twenty-one feeds: the acme board, which lists
\* three new jobs, is the first feed of the page or the last, the other
\* boards are empty.
BeatFeedDocs(acmeAt) ==
    [k \in 1..(PAGED_PROGRESS_EVERY + 1) |->
        PagedFeedDoc(k, IF k = acmeAt THEN UrlGreenhouse
                        ELSE IF k = 5 THEN UrlGamma ELSE UrlBeta, Null)]

\* The feed the loop of task t is at.
PagedFeedAt(t) == inv[t].pageFeeds[inv[t].pageFeedsProcessed + 1]

PagedBeatInit ==
    /\ now = T0
    /\ fx = FxIdle
    /\ \E acmeAt \in {1, PAGED_PROGRESS_EVERY + 1} : feedsCol = [u \in {"u2"} |-> BeatFeedDocs(acmeAt)]
    /\ jobs = {}
    /\ companies = {}
    /\ fetchRuns = [r \in 1..PAGED_MAX_ATTEMPTS |-> NoPagedRun]
    /\ \E runType \in {"manual", "scheduled"} :
         tasks = [t \in 1..2 |-> IF t = 1 THEN PagedTask("u2", runType, 0, Null) ELSE NoPagedTask]
    /\ inv = [t \in 1..2 |-> PagedIdle]
    /\ resp = NoResp

PagedBeatNext ==
    \/ \E t \in DOMAIN tasks : PagedStart(t)
    \/ \E t \in DOMAIN tasks :
          /\ inv[t].pc = "feeds" /\ inv[t].pageFeedsProcessed < Len(inv[t].pageFeeds)
          /\ PagedFeedAt(t).url # UrlGreenhouse
          /\ PagedFeedProcessed(t)
    \/ \E t \in DOMAIN tasks :
          /\ inv[t].pc = "feeds" /\ inv[t].pageFeedsProcessed < Len(inv[t].pageFeeds)
          /\ PagedFeedAt(t).url = UrlGreenhouse
          /\ PagedCreateQueued(t)
    \/ \E t \in DOMAIN tasks : PagedCreateAnswer(t)
    \/ \E t \in DOMAIN tasks : PagedFeedWritten(t)
    \/ \E t \in DOMAIN tasks : PagedPageUpdate(t)
    \/ \E t \in DOMAIN tasks : PagedReturn(t)

SpecPagedBeat == PagedBeatInit /\ [][PagedBeatNext]_vars

\* pollNowV2 or the scheduler of part_000 has enqueued page 0 for user u1.
PagedInit ==
    /\ now = T0
    /\ fx = FxIdle
    /\ feedsCol = [u \in {"u1"} |-> PagedFeedDocs]
    /\ jobs = {}
    /\ companies = {}
    /\ fetchRuns = [r \in 1..PAGED_MAX_ATTEMPTS |-> NoPagedRun]
    /\ \E runType \in {"manual", "scheduled"} :
         tasks = [t \in 1..2 |-> IF t = 1 THEN PagedTask("u1", runType, 0, Null) ELSE NoPagedTask]
    /\ inv = [t \in 1..2 |-> PagedIdle]
    /\ resp = NoResp

PagedNext ==
    \/ \E t \in DOMAIN tasks : PagedStart(t)
    \/ \E t \in DOMAIN tasks : PagedFeedProcessed(t)
    \/ \E t \in DOMAIN tasks : PagedPageUpdate(t)
    \/ \E t \in DOMAIN tasks : PagedContinue(t)
    \/ \E t \in DOMAIN tasks : PagedContinueFail(t)
    \/ \E t \in DOMAIN tasks : PagedReturn(t)

SpecPaged == PagedInit /\ [][PagedNext]_vars

\* ------------------------------------------------------------------ PROPERTIES
\* The creates of run r, each named by its feed and its place in the feed.
Writes(r) ==
    UNION {{<<i, k>> : k \in 1..Len(inv[r].fs[i].w)} : i \in 1..Len(inv[r].fs)}

Op(r, p) == inv[r].fs[p[1]].w[p[2]]

Answered(op) == op.st \in {"created", "exists"}

\* The stored documents of one job of one company, and of one document id.
JobDocs(uid, companyKey, jobId) ==
    {d \in jobs : d.uid = uid /\ d.companyKey = companyKey /\ d.jobId = jobId}

DocsById(uid, docId) == {d \in jobs : d.uid = uid /\ d.docId = docId}

StoredBefore(uid, companyKey, jobId) ==
    \E d \in JobDocs(uid, companyKey, jobId) : d.createdAt < T0

SameJob(a, b) ==
    a.data.uid = b.data.uid /\ a.data.companyKey = b.data.companyKey /\ a.data.jobId = b.data.jobId

\* C1: when the two runs have both had their create of the same job
\* answered, exactly one document is stored for the job, and the values
\* createJobIfNew returned to the two runs sum to 1 (to 0 for a job that was
\* stored before either run began).
C1_ConcurrentCreateOnce ==
    \A p \in Writes(1), q \in Writes(2) :
        (SameJob(Op(1, p), Op(2, q)) /\ Answered(Op(1, p)) /\ Answered(Op(2, q)))
            => /\ Cardinality(JobDocs(Op(1, p).data.uid, Op(1, p).data.companyKey,
                                      Op(1, p).data.jobId)) = 1
               /\ CreatedFlag(Op(1, p).st) + CreatedFlag(Op(2, q).st)
                    = IF StoredBefore(Op(1, p).data.uid, Op(1, p).data.companyKey,
                                      Op(1, p).data.jobId)
                      THEN 0 ELSE 1

\* Both runs are in the middle of the feed, each with its create of job 7
\* answered, and the job was new to the store.
C1_Witness ==
    /\ inv[1].pc = "feeds" /\ inv[2].pc = "feeds"
    /\ \E p \in Writes(1), q \in Writes(2) :
         /\ inv[1].fs[p[1]].pc = "writing" /\ inv[2].fs[q[1]].pc = "writing"
         /\ SameJob(Op(1, p), Op(2, q))
         /\ Op(1, p).data.jobId = "7"
         /\ Op(1, p).st = "exists" /\ Op(2, q).st = "created"
         /\ ~StoredBefore("u1", "acme", "7")

\* C2: a create that is answered while a document of its job is stored
\* returns 0 and leaves the number of documents of the job as it was,
\* whatever the job's content has become in the feed.
C2_RepeatedIngestionStable ==
    [][\A r \in RunIds : \A p \in Writes(r) :
          LET op == Op(r, p)
          IN  (/\ ~Answered(op)
               /\ JobDocs(op.data.uid, op.data.companyKey, op.data.jobId) # {}
               /\ p \in Writes(r)'
               /\ Answered(Op(r, p)'))
                  => /\ CreatedFlag(Op(r, p)'.st) = 0
                     /\ Cardinality(JobDocs(op.data.uid, op.data.companyKey, op.data.jobId)')
                          = Cardinality(JobDocs(op.data.uid, op.data.companyKey, op.data.jobId))
      ]_vars

\* Job 7 was created by one of the runs; the other run met it edited in the
\* feed, and its create was answered "already exists".
C2_Witness ==
    \E r \in RunIds : \E p \in Writes(r) :
        /\ Op(r, p).st = "exists"
        /\ CreatedFlag(Op(r, p).st) = 0
        /\ \E d \in JobDocs("u1", Op(r, p).data.companyKey, Op(r, p).data.jobId) :
              /\ d.createdAt >= T0
              /\ d.updatedAtTs # Op(r, p).data.updatedAtTs
        /\ Cardinality(JobDocs("u1", Op(r, p).data.companyKey, Op(r, p).data.jobId)) = 1

\* C3: the step in which a create is answered "already exists" leaves the
\* stored document of that id exactly as it was, every field of it (saved,
\* firstSeenAt, createdAt, lastSeenAt, updatedAtTs among them).
C3_ExistingDocUntouched ==
    [][\A r \in RunIds : \A p \in Writes(r) :
          (/\ Op(r, p).st = "queued"
           /\ p \in Writes(r)'
           /\ Op(r, p)'.st = "exists")
              => /\ DocsById(Op(r, p).data.uid, Op(r, p).docId) # {}
                 /\ DocsById(Op(r, p).data.uid, Op(r, p).docId)'
                      = DocsById(Op(r, p).data.uid, Op(r, p).docId)
      ]_vars

\* A create of job 7, edited in the feed, has met the document an earlier run
\* stored, which the user has saved since; the document is as it was.
C3_Witness ==
    /\ PriorDoc \in jobs
    /\ now > T0
    /\ \E r \in RunIds : \E p \in Writes(r) :
         /\ Op(r, p).st = "exists"
         /\ Op(r, p).docId = PriorDoc.docId
         /\ Op(r, p).data.updatedAtTs # PriorDoc.updatedAtTs
         /\ Op(r, p).data.saved # PriorDoc.saved

Terminal == {"done", "done_with_errors", "failed", "enqueue_failed"}

\* The status changes named by the run state machine as the claim words it.
StatedTransitions ==
    {<<"enqueued", "running">>, <<"running", "done">>, <<"running", "done_with_errors">>,
     <<"running", "failed">>, <<"enqueued", "enqueue_failed">>}

\* A record comes into being in status enqueued.
Creation == {<<"absent", "enqueued">>}

CodeTransitions ==
    StatedTransitions
        \cup {<<"enqueued", "failed">>}
        \cup {<<"failed", "running">>, <<"done", "running">>, <<"done_with_errors", "running">>}
        \cup {<<"done", "failed">>, <<"done_with_errors", "failed">>}

C5_TerminalImmutable ==
    [][\A r \in RunIds :
          fetchRuns[r].status \in Terminal => fetchRuns'[r] = fetchRuns[r]
      ]_vars

\* The task of a run that failed was delivered a second time: the record is
\* running again and still holds the error of the first attempt.
C5_Witness ==
    \E r \in RunIds :
        /\ tasks[r].attempts = 2
        /\ fetchRuns[r].status = "running"
        /\ fetchRuns[r].error = LoadFeedsError
        /\ fetchRuns[r].finishedAt # Null

\* The failed feeds of a polling run.
FailedFeeds(r) == {i \in 1..Len(inv[r].fs) : inv[r].fs[i].pc = "err"}

IsPoll(r) == inv[r].fn = "pollUserTaskV2"

\* C6: when processUserFeeds returns, the record's status is done if no feed
\* failed (errorsCount = 0) and done_with_errors otherwise, and the record
\* holds the finishedAt and the durationMs of that same write.
C6_FinalStatusByErrors ==
    \A r \in RunIds :
        (IsPoll(r) /\ inv[r].pc = "return")
            => /\ fetchRuns[r].errorsCount = Cardinality(FailedFeeds(r))
               /\ fetchRuns[r].status \in {"done", "done_with_errors"}
               /\ (fetchRuns[r].status = "done" <=> fetchRuns[r].errorsCount = 0)
               /\ fetchRuns[r].finishedAt # Null
               /\ fetchRuns[r].finishedAt = fetchRuns[r].updatedAt
               /\ fetchRuns[r].durationMs = fetchRuns[r].finishedAt - inv[r].startedAtMs
               /\ fetchRuns[r].durationMs >= 0

\* A run has returned with one failed feed, a tick after it began.
C6_Witness ==
    \E r \in RunIds :
        /\ IsPoll(r) /\ inv[r].pc = "return"
        /\ fetchRuns[r].status = "done_with_errors"
        /\ fetchRuns[r].errorsCount = 1
        /\ fetchRuns[r].durationMs = 1

\* The errors that arise outside the per-feed isolation.
RunLevelErrors == {LoadFeedsError, CloseError}

RECURSIVE SumKept(_, _)
SumKept(fs, i) ==
    IF i = 0 THEN 0
    ELSE (IF fs[i].pc = "ok" THEN Len(fs[i].kept) ELSE 0) + SumKept(fs, i - 1)

\* C7: a feed that throws is counted once in errorsCount and stops nothing:
\* the run stays running, every other feed is taken to its end before the
\* writer is closed, the run returns done_with_errors, not failed, and no
\* catch block for run-level errors ever holds a feed's error.
C7_FeedFailureIsolated ==
    \A r \in RunIds :
        IsPoll(r) =>
            /\ inv[r].pc \in {"feeds", "closing", "final", "return"}
                  => inv[r].errorsCount = Cardinality(FailedFeeds(r))
            /\ inv[r].pc \in {"feeds", "closing", "final"}
                  => fetchRuns[r].status = "running"
            /\ inv[r].pc \in {"closing", "final", "return"}
                  => /\ \A i \in 1..Len(inv[r].fs) : inv[r].fs[i].pc \in {"ok", "err"}
                     /\ inv[r].processedTotal = SumKept(inv[r].fs, Len(inv[r].fs))
            /\ inv[r].pc = "return"
                  => /\ fetchRuns[r].status # "failed"
                     /\ fetchRuns[r].errorsCount = Cardinality(FailedFeeds(r))
                     /\ fetchRuns[r].processed = inv[r].processedTotal
            /\ inv[r].pc \in {"innerCatch", "handlerCatch", "threw"}
                  => inv[r].err \in RunLevelErrors

\* The second feed has thrown; the first was processed and its job stored;
\* the run has returned.
C7_Witness ==
    \E r \in RunIds :
        /\ IsPoll(r) /\ inv[r].pc = "return"
        /\ Len(inv[r].fs) = 2
        /\ inv[r].fs[2].pc = "err" /\ inv[r].fs[1].pc = "ok"
        /\ fetchRuns[r].processed = 1 /\ fetchRuns[r].createdCount = 1
        /\ fetchRuns[r].errorsCount = 1
        /\ fetchRuns[r].status = "done_with_errors"

\* C8: when pollUserTaskV2 has an error from outside the per-feed isolation
\* (the feed list load, the closing of the writer), it ends by throwing that
\* error, never by returning, and the record is then failed and holds the
\* error's message.
C8_RunLevelFailure ==
    \A r \in RunIds :
        IsPoll(r) =>
            /\ inv[r].pc = "threw"
                  => /\ inv[r].err \in RunLevelErrors
                     /\ fetchRuns[r].status = "failed"
                     /\ fetchRuns[r].error = inv[r].err
                     /\ fetchRuns[r].finishedAt # Null
            /\ inv[r].pc = "return" => inv[r].err = NoMsg
            /\ inv[r].err # NoMsg => inv[r].pc \in {"innerCatch", "handlerCatch", "threw"}

\* The closing of the writer has failed after a feed was processed, and the
\* handler has thrown.
C8_Witness ==
    \E r \in RunIds :
        /\ IsPoll(r) /\ inv[r].pc = "threw"
        /\ inv[r].err = CloseError
        /\ fetchRuns[r].status = "failed"
        /\ fetchRuns[r].error = CloseError
        /\ fetchRuns[r].startedAt # Null

Is503(o) == o.kind = "http" /\ o.status = 503

IsParsed200(o) == o.kind = "http" /\ o.status = 200 /\ JsonParse(o.body).valid

\* C10: a call whose attempts are answered 503, 503 and a 200 with a JSON
\* body sleeps after each 503 (for 800 * 2^attempt ms plus a jitter below
\* 250), makes exactly three attempts and returns the parsed body of the 200.
C10_Retry503Then200 ==
    /\ (Len(fx.hist) = 1 /\ Is503(fx.hist[1]))
          => /\ fx.pc \in {"sleeping", "request"}
             /\ Len(fx.sleeps) = 1
    /\ (Len(fx.hist) = 2 /\ Is503(fx.hist[1]) /\ Is503(fx.hist[2]))
          => /\ fx.pc \in {"sleeping", "request"}
             /\ Len(fx.sleeps) = 2
    /\ (Len(fx.hist) = 3 /\ Is503(fx.hist[1]) /\ Is503(fx.hist[2]) /\ IsParsed200(fx.hist[3]))
          => /\ fx.pc = "returned"
             /\ fx.calls = 3
             /\ fx.json = JsonParse(fx.hist[3].body)
             /\ Len(fx.sleeps) = 2
             /\ fx.sleeps[1] >= FETCH_RETRY_BASE_DELAY_MS
             /\ fx.sleeps[1] < FETCH_RETRY_BASE_DELAY_MS + FETCH_JITTER_MS
             /\ fx.sleeps[2] >= 2 * FETCH_RETRY_BASE_DELAY_MS
             /\ fx.sleeps[2] < 2 * FETCH_RETRY_BASE_DELAY_MS + FETCH_JITTER_MS
    /\ fx.pc = "returned" => fx.calls = Len(fx.hist)

\* The call has returned job 7 of the 200 body after two 503 answers.
C10_Witness ==
    /\ fx.pc = "returned"
    /\ Len(fx.hist) = 3
    /\ Is503(fx.hist[1]) /\ Is503(fx.hist[2])
    /\ fx.hist[3] = HttpResponse(200, BodyOneJob)
    /\ fx.json.jobs = <<Job7>>
    /\ Len(fx.sleeps) = 2

\* The statuses the claims name as retryable.
StatedRetryableStatuses == {408, 425, 429, 500, 502, 503, 504}

IsStatedNonRetryable(o) ==
    o.kind = "http" /\ ~(o.status >= 200 /\ o.status <= 299)
        /\ o.status \notin StatedRetryableStatuses

\* C11 as stated: a call whose first answer is a response that is not OK and
\* whose status is none of 408, 425, 429, 500, 502, 503, 504 has failed
\* after that one attempt, without a sleep, whatever the body and the URL,
\* with a message of the status, the reason and at most 300 characters of
\* the body.
C11_NonRetryableFailsAtOnce ==
    (Len(fx.hist) >= 1 /\ IsStatedNonRetryable(fx.hist[1]))
        => /\ fx.pc = "threw"
           /\ fx.calls = 1
           /\ fx.sleeps = <<>>
           /\ fx.err.msg = HttpErrorMsg(fx.hist[1], fx.url)
           /\ fx.err.msg[2].txt = ToString(fx.hist[1].status)
           /\ fx.err.msg[3].txt = StatusText(fx.hist[1].status)
           /\ fx.err.msg[7].len <= MAX_SNIPPET_CHARS

\* A 404 whose body names ENOTFOUND within its first 300 characters was
\* answered to a URL that holds no such word: the call sleeps to try again.
C11_Witness ==
    /\ fx.url = UrlGreenhouse
    /\ fx.hist = <<HttpResponse(404, BodyNotFound)>>
    /\ fx.pc = "sleeping"
    /\ Len(fx.sleeps) = 1

\* The causes after which the claims allow another attempt: a retryable
\* status, the abort by the timeout timer, a connection-reset / timeout / DNS
\* error of the network.
IsStatedRetryCause(o) ==
    \/ o.kind = "abort"
    \/ o.kind = "neterr" /\ o.text.tok > 0
    \/ o.kind = "http" /\ o.status \in StatedRetryableStatuses

\* C12 as stated: one call makes at most FETCH_RETRIES + 1 attempts, every
\* attempt that was followed by a backoff had a retryable status, a timeout
\* abort or a connection-reset/timeout/DNS error, and the call never leaves
\* the loop without a result or an error of an attempt.
C12_BoundedRetries ==
    /\ fx.calls <= FETCH_RETRIES + 1
    /\ fx.calls = Len(fx.hist)
    /\ Len(fx.sleeps) <= FETCH_RETRIES
    /\ \A i \in 1..Len(fx.sleeps) : IsStatedRetryCause(fx.hist[i])
    /\ fx.pc = "request" => fx.attempt <= FETCH_RETRIES
    /\ fx.pc = "returned" => fx.json.valid
    /\ fx.pc = "threw" => fx.err.msg # <<>>

\* Three requests were made for a board that answered 401 each time.
C12_Witness ==
    /\ fx.url = UrlTokened
    /\ fx.pc = "threw"
    /\ fx.calls = 3
    /\ \A i \in 1..3 : fx.hist[i] = HttpResponse(401, BodyHtml)

\* The error that describes the failure of one attempt.
CauseError(o, url) ==
    IF o.kind = "abort" THEN Err("Error", TimeoutErrorMsg(url))
    ELSE IF o.kind = "neterr" THEN Err("TypeError", <<o.text>>)
    ELSE Err("Error", HttpErrorMsg(o, url))

\* C13: a call all of whose attempts so far failed with a retryable cause
\* goes on while attempts remain; after attempt FETCH_RETRIES + 1 it has
\* thrown the error of that last attempt: "Timeout after 60000 ms for <url>"
\* if it was aborted, else its HTTP status error or its network error.
C13_LastCauseReported ==
    (Len(fx.hist) >= 1 /\ \A i \in 1..Len(fx.hist) : IsStatedRetryCause(fx.hist[i]))
        => IF Len(fx.hist) <= FETCH_RETRIES
           THEN /\ fx.pc \in {"sleeping", "request"}
                /\ Len(fx.sleeps) = Len(fx.hist)
           ELSE /\ fx.pc = "threw"
                /\ fx.calls = FETCH_RETRIES + 1
                /\ fx.err = CauseError(fx.hist[Len(fx.hist)], fx.url)
                /\ fx.hist[Len(fx.hist)].kind = "abort"
                      => /\ fx.err.msg[1].txt = "Timeout after"
                         /\ fx.err.msg[2].txt = ToString(FETCH_TIMEOUT_MS)

\* A 503, a connection reset and a timeout: the call has thrown the timeout
\* error.
C13_Witness ==
    /\ fx.pc = "threw"
    /\ Len(fx.hist) = 3
    /\ Is503(fx.hist[1])
    /\ fx.hist[2].kind = "neterr" /\ fx.hist[2].text.tok > 0
    /\ fx.hist[3] = AbortOutcome
    /\ fx.err = Err("Error", TimeoutErrorMsg(fx.url))

\* The users who have paused the schedule.
PausedUsers == {u \in DOMAIN UsersCol : UsersCol[u].schedulerEnabled = "false"}

\* The feeds of invocation r whose fetch has been answered.
FetchedFeeds(r) == {i \in 1..Len(inv[r].fs) : inv[r].fs[i].pc \notin {"wait", "fetch"}}

\* C14: for a user whose schedulerEnabled flag is false, no feed of that user
\* is fetched by a scheduled run (the scheduler and the worker together leave
\* the paused user alone).
C14_PausedUserNotFetched ==
    \A r \in RunIds :
        (inv[r].runType = "scheduled" /\ inv[r].uid \in PausedUsers) => FetchedFeeds(r) = {}

\* C14, the case: the scheduler's run for the paused user u1 is running and
\* has had its feed answered.
C14_Witness ==
    \E r \in RunIds :
        /\ fetchRuns[r].uid = "u1"
        /\ fetchRuns[r].runType = "scheduled"
        /\ fetchRuns[r].status = "running"
        /\ tasks[r].attempts = 1
        /\ "u1" \in PausedUsers
        /\ FetchedFeeds(r) = {1}

\* The step is an invocation of the callable or scheduled function fn.
Invoked(fn) == resp'.seq # resp.seq /\ resp'.fn = fn

\* C15: a call of pollNowV2 by a signed-in user creates exactly one run record
\* and hands exactly one task to the queue, both under the caller's own uid and
\* no other record or task changes; a call without authentication fails with
\* 'unauthenticated' and leaves the run records and the tasks as they were.
C15_ManualRunForCallerOnly ==
    [][Invoked("pollNowV2") =>
        IF resp'.auth = NoAuth
        THEN /\ resp'.error = "unauthenticated"
             /\ fetchRuns' = fetchRuns
             /\ tasks' = tasks
        ELSE /\ resp'.error = ""
             /\ \E r \in RunIds :
                  /\ fetchRuns[r].status = "absent"
                  /\ tasks[r].st = "none"
                  /\ fetchRuns'[r].status = "enqueued"
                  /\ fetchRuns'[r].runType = "manual"
                  /\ fetchRuns'[r].uid = resp'.auth
                  /\ tasks'[r].st = "enqueueing"
                  /\ tasks'[r].fn = "pollUserTaskV2"
                  /\ tasks'[r].uid = resp'.auth
                  /\ \A q \in RunIds \ {r} :
                       fetchRuns'[q] = fetchRuns[q] /\ tasks'[q] = tasks[q]]_vars

\* C15, the cases: u2, signed in, has called pollNowV2 and has its one run and
\* one queued task; then a call without authentication was refused and the
\* second run id is still unused.
C15_Witness ==
    /\ resp = [fn |-> "pollNowV2", auth |-> NoAuth, uid |-> "",
               error |-> "unauthenticated", seq |-> 2]
    /\ fetchRuns[1].uid = "u2"
    /\ fetchRuns[1].runType = "manual"
    /\ tasks[1].uid = "u2"
    /\ tasks[1].st = "queued"
    /\ fetchRuns[2] = NoRun
    /\ tasks[2] = NoTask

\* The run records of the paged worker, and whether its queue has come to rest.
PagedRuns == {r \in DOMAIN fetchRuns : fetchRuns[r].exists}

PagedAtRest == \A t \in DOMAIN tasks : tasks[t].st \in {"none", "done", "dead"}

\* C16: once the task of the last page has finished the run and no task is
\* left, the pages have updated one single run record, which counts every
\* page once and every active feed of the user once.
C16_PagesShareOneRecord ==
    (PagedAtRest /\ \E r \in PagedRuns : fetchRuns[r].finishedAt # Null) =>
        /\ Cardinality(PagedRuns) = 1
        /\ \A r \in PagedRuns :
             /\ fetchRuns[r].pagesDone = fetchRuns[r].pagesTotal
             /\ fetchRuns[r].feedsProcessed = fetchRuns[r].feedsCount

\* C16, the case: the queue refused the continuation of page 0 once; the
\* redelivered page 0 opened a second run record, and page 1 finished that one.
C16_Witness ==
    /\ PagedAtRest
    /\ tasks[1].attempts = 2
    /\ tasks[2].pageIndex = 1
    /\ tasks[2].runId = 2
    /\ fetchRuns[1].pagesDone = 1
    /\ fetchRuns[1].finishedAt = Null
    /\ fetchRuns[2].pagesDone = 2
    /\ fetchRuns[2].feedsProcessed = FEEDS_PER_TASK + 1
    /\ fetchRuns[2].finishedAt # Null

\* The cleanup invocations in progress.
IsPurge(r) == inv[r].fn = "purgeUserOldJobsTaskV2"

\* C17: a job document that a step removes from the store has a freshness
\* timestamp before the cutoff of a cleanup whose queued delete names it: no
\* job with updatedAtTs at or after the cutoff is deleted, whatever ingestion
\* runs concurrently.
C17_OnlyExpiredDeleted ==
    [][\A d \in jobs :
          d \notin jobs' =>
             \E r \in RunIds :
                /\ IsPurge(r)
                /\ d.docId \in inv[r].del
                /\ d.updatedAtTs < inv[r].cutoffTs]_vars

\* C17, the case: both cleanups have finished, the job at the cutoff is
\* retained, and job 7, which the ingestion stored afresh after the first
\* cleanup deleted the expired copy, is gone although no cleanup found it
\* expired.
C17_Witness ==
    /\ fetchRuns[1].status = "done"
    /\ fetchRuns[2].status = "done"
    /\ fetchRuns[3].status = "done"
    /\ fetchRuns[3].createdCount = 1
    /\ AtCutoffDoc \in jobs
    /\ "beta__7" \notin StoredIds

\* The job documents of run r's user that were expired at the cutoff the run
\* recorded when it started.
ExpiredFor(r) ==
    {d \in jobs : d.uid = fetchRuns[r].uid /\ d.updatedAtTs < fetchRuns[r].cutoffUpdatedAtTs}

IsCleanupRun(r) == fetchRuns[r].runType \in {"cleanup_manual", "cleanup_scheduled", "cleanup"}

\* C18: when a cleanup has finished with status done, no job of the user
\* with updatedAtTs older than the cutoff at its start is left in the store.
C18_DoneMeansPurged ==
    \A r \in RunIds :
        (IsCleanupRun(r) /\ fetchRuns[r].status = "done") => ExpiredFor(r) = {}

\* C18, the case: the cleanup has counted the expired job as deleted and has
\* finished with status done, and the job is still stored (its delete was
\* given up by the writer).
C18_Witness ==
    \E r \in RunIds :
        /\ IsCleanupRun(r)
        /\ fetchRuns[r].status = "done"
        /\ fetchRuns[r].deleted = 1
        /\ fetchRuns[r].errorsCount = 0
        /\ OldDoc \in ExpiredFor(r)

\* C19: the page loop of a cleanup ends: from every state in which the loop
\* is running the run comes to a terminal status (the loop has met a page
\* shorter than CLEANUP_QUERY_LIMIT, or an empty one), given that the queued
\* deletes are applied.
C19_PurgeLoopTerminates ==
    \A r \in {1} :
        (IsPurge(r) /\ inv[r].pc = "purgeLoop")
            ~> (inv[r].pc # "purgeLoop" /\ fetchRuns[r].status \in Terminal)

\* C19, the case: the loop has read a full page twice, is still running, and
\* as many expired jobs as a page holds are still stored.
C19_Witness ==
    /\ IsPurge(1)
    /\ inv[1].pc = "purgeLoop"
    /\ inv[1].deleted = 2 * CLEANUP_QUERY_LIMIT
    /\ Cardinality(ExpiredFor(1)) = CLEANUP_QUERY_LIMIT

\* The ids of the job documents one complete execution of a run of user uid
\* can store: the jobs the user's feeds may answer with, keyed as the run
\* keys them.
ExecutionIds(uid) ==
    UNION {UNION {{jobDocId(feedCompanyKey(loadUserFeeds(feedsCol[uid])[i]),
                            toGreenhouseLikeJob(detectFeedSource(loadUserFeeds(feedsCol[uid])[i].url),
                                                res.json.jobs[k]).id) :
                       k \in 1..Len(res.json.jobs)} :
                  res \in {x \in Web(loadUserFeeds(feedsCol[uid])[i].url) : x.ok}} :
           i \in 1..Len(loadUserFeeds(feedsCol[uid]))}

\* C20: while a redelivered attempt of a pollUserTaskV2 task runs (its second
\* or third delivery), every job document already stored stays exactly as it
\* is, a document that is added has an id not stored before and is one a
\* complete execution of the run stores, and no id is stored twice.
C20_RedeliveryKeepsJobs ==
    [][\A r \in RunIds :
          (IsPoll(r) /\ tasks[r].attempts >= 2) =>
             /\ \A d \in jobs : d \in jobs'
             /\ \A d \in jobs' \ jobs :
                  /\ d.docId \notin StoredIds
                  /\ d.docId \in ExecutionIds(inv[r].uid)
             /\ Cardinality(StoredIds') = Cardinality(jobs')]_vars

\* C20, the case: the first attempt stored job 7 and was cut off; the second
\* delivery of the task has sent the create of job 7 again and the store has
\* answered that the document exists.
C20_Witness ==
    /\ IsPoll(1)
    /\ tasks[1].attempts = 2
    /\ Len(inv[1].fs) >= 1
    /\ Len(inv[1].fs[1].w) = 1
    /\ inv[1].fs[1].w[1].docId = "beta__7"
    /\ inv[1].fs[1].w[1].st = "exists"
    /\ StoredIds = {"beta__3", "beta__7"}

\* The feeds of invocation r that fail in the step.
FailingNow(r) ==
    {i \in FeedIdx(r) :
        i \in 1..Len(inv'[r].fs) /\ inv[r].fs[i].pc # "err" /\ inv'[r].fs[i].pc = "err"}

\* C21: errorSamples never holds more than MAX_ERROR_SAMPLES entries, a feed's
\* failure is counted in errorsCount and is appended as the next sample while
\* there is room and leaves the samples alone once there is none (so the
\* samples are the first failures in their order), errorsCount is never less
\* than the number of samples, and the final record carries both.
C21_FirstFailuresSampled ==
    [][\A r \in RunIds :
          /\ Len(inv'[r].errorSamples) <= MAX_ERROR_SAMPLES
          /\ inv'[r].errorsCount >= Len(inv'[r].errorSamples)
          /\ inv'[r].errorsCount <= MAX_ERROR_SAMPLES
                => Len(inv'[r].errorSamples) = inv'[r].errorsCount
          /\ \A i \in FailingNow(r) :
                /\ inv'[r].errorsCount = inv[r].errorsCount + 1
                /\ IF Len(inv[r].errorSamples) < MAX_ERROR_SAMPLES
                   THEN /\ Len(inv'[r].errorSamples) = Len(inv[r].errorSamples) + 1
                        /\ SubSeq(inv'[r].errorSamples, 1, Len(inv[r].errorSamples))
                              = inv[r].errorSamples
                        /\ inv'[r].errorSamples[Len(inv'[r].errorSamples)].url
                              = inv[r].feeds[i].url
                   ELSE inv'[r].errorSamples = inv[r].errorSamples
          /\ (fetchRuns[r].status = "running"
                /\ fetchRuns'[r].status \in {"done", "done_with_errors"})
                => /\ fetchRuns'[r].errorSamples = inv[r].errorSamples
                   /\ fetchRuns'[r].errorsCount = inv[r].errorsCount]_vars

\* C21, the case: twelve feeds of the run have failed, the record counts the
\* twelve and holds ten samples.
C21_Witness ==
    /\ fetchRuns[1].status = "done_with_errors"
    /\ fetchRuns[1].errorsCount = MAX_ERROR_SAMPLES + 2
    /\ Len(fetchRuns[1].errorSamples) = MAX_ERROR_SAMPLES

\* The feeds of an invocation that are inside processOneFeed.
InsideProcessOneFeed(iv) == {i \in 1..Len(iv.fs) : iv.fs[i].pc \in {"fetch", "writing"}}

\* C22: at no moment are more than FEED_CONCURRENCY feeds of a run inside
\* processOneFeed; a feed enters it only from the limiter's queue and never
\* returns to the queue (it is started once), and when the run goes on to
\* close the writer no feed is left waiting (every feed was started).
C22_FeedConcurrencyBounded ==
    [][\A r \in RunIds :
          /\ Cardinality(InsideProcessOneFeed(inv'[r])) <= FEED_CONCURRENCY
          /\ \A i \in FeedIdx(r) :
                i \in 1..Len(inv'[r].fs) =>
                   /\ (inv'[r].fs[i].pc = "fetch" /\ inv[r].fs[i].pc # "fetch")
                         => inv[r].fs[i].pc = "wait"
                   /\ inv'[r].fs[i].pc = "wait" => inv[r].fs[i].pc = "wait"
          /\ (inv[r].pc = "feeds" /\ inv'[r].pc = "closing")
                => \A i \in FeedIdx(r) : inv[r].fs[i].pc \in {"ok", "err"}]_vars

\* C22, the case: of twelve feeds three are inside processOneFeed, some have
\* failed already and the others wait in the limiter's queue.
C22_Witness ==
    /\ Len(inv[1].fs) = MAX_ERROR_SAMPLES + 2
    /\ Cardinality(InsideProcessOneFeed(inv[1])) = FEED_CONCURRENCY
    /\ inv[1].errorsCount = 2
    /\ Cardinality({i \in FeedIdx(1) : inv[1].fs[i].pc = "wait"}) = MAX_ERROR_SAMPLES - 3

\* The store error codes the specification calls transient: deadline-exceeded,
\* resource-exhausted, aborted, internal, unavailable.
StatedTransientCodes == {4, 8, 10, 13, 14}

\* The job writes of the invocations.
JobWrites == {<<r, i, k>> \in UNION {{<<r, i, k>> : k \in WriteIdx(r, i)} :
                                        <<r, i>> \in UNION {{<<r, i>> : i \in FeedIdx(r)} : r \in RunIds}} : TRUE}

\* C23: the writer's error handler asks for a retry exactly for a transient
\* code whose write has failed fewer than 3 times (so never for another code,
\* already-exists, 6, included); a write never fails more than 3 times, a
\* write that is still being retried has failed fewer than 3 times, and a
\* write that failed for good with a transient code has failed exactly 3
\* times.
C23_TransientWriteRetriedThrice ==
    /\ \A code \in 0..16, n \in 1..4 :
          onWriteError(code, n) <=> (code \in StatedTransientCodes /\ n < 3)
    /\ \A w \in JobWrites :
          LET op == inv[w[1]].fs[w[2]].w[w[3]]
          IN  /\ op.failedAttempts <= 3
              /\ (op.st = "queued" /\ op.failedAttempts > 0) => op.failedAttempts < 3
              /\ op.st = "failed" =>
                    /\ op.failedAttempts >= 1
                    /\ op.code \in StatedTransientCodes => op.failedAttempts = 3
              /\ op.st = "exists" => op.code = 0

\* C23, the case: a create has met "unavailable" three times and has been
\* given up.
C23_Witness ==
    \E w \in JobWrites :
        LET op == inv[w[1]].fs[w[2]].w[w[3]]
        IN  op.st = "failed" /\ op.code = 14 /\ op.failedAttempts = 3

\* The messages of the store's answers to a rejected job write.
WriteErrors == {StoreErrorMsg(code) : code \in StoreErrorCodes}

\* The runs one of whose job writes has failed for good.
HasFailedWrite(r) == \E w \in JobWrites : w[1] = r /\ inv[r].fs[w[2]].w[w[3]].st = "failed"

\* C24: a job write that has failed for good stops nothing but its own feed:
\* the error never reaches a catch block for run-level errors and is never
\* the error of a failed record, every other feed is taken to its end before
\* the writer is closed, the feed of the write is counted as one failed
\* feed, and the run returns done_with_errors.
C24_FailedWriteKeepsRun ==
    \A r \in RunIds :
        (IsPoll(r) /\ HasFailedWrite(r)) =>
            /\ inv[r].err \notin WriteErrors
            /\ fetchRuns[r].error \notin WriteErrors
            /\ inv[r].pc \in {"closing", "final", "return"}
                  => /\ \A i \in FeedIdx(r) : inv[r].fs[i].pc \in {"ok", "err"}
                     /\ \A w \in JobWrites :
                           (w[1] = r /\ inv[r].fs[w[2]].w[w[3]].st = "failed")
                              => inv[r].fs[w[2]].pc = "err"
                     /\ inv[r].errorsCount = Cardinality(FailedFeeds(r))
            /\ inv[r].pc = "return"
                  => /\ fetchRuns[r].status = "done_with_errors"
                     /\ fetchRuns[r].errorsCount >= 1

\* C24, the case: the only create of the first feed was refused for good, the
\* second feed was processed, and the run has returned.
C24_Witness ==
    \E r \in RunIds :
        /\ IsPoll(r) /\ inv[r].pc = "return"
        /\ Len(inv[r].fs) = 2
        /\ inv[r].fs[1].pc = "err" /\ Len(inv[r].fs[1].w) = 1
        /\ inv[r].fs[1].w[1].st = "failed" /\ inv[r].fs[1].w[1].code = 7
        /\ inv[r].fs[2].pc = "ok"
        /\ fetchRuns[r].status = "done_with_errors"
        /\ fetchRuns[r].errorsCount = 1

\* The creates of run r that the store has applied.
CreatedBy(r) == {w \in JobWrites : w[1] = r /\ inv[r].fs[w[2]].w[w[3]].st = "created"}

\* The number of raw jobs of run r that passed the update window and the
\* location filter, over the feeds 1..i.
RECURSIVE KeptUpTo(_, _)
KeptUpTo(fs, i) == IF i = 0 THEN 0 ELSE Len(fs[i].kept) + KeptUpTo(fs, i - 1)

\* C25: when an ingestion has returned (its record done or done_with_errors),
\* the record's createdCount is the number of job documents the run created
\* in the store and its processed is the number of raw jobs that passed the
\* filters in the run.
C25_CountsMatchStore ==
    \A r \in RunIds :
        (IsPoll(r) /\ inv[r].pc = "return"
                   /\ fetchRuns[r].status \in {"done", "done_with_errors"})
            => /\ fetchRuns[r].createdCount = Cardinality(CreatedBy(r))
               /\ fetchRuns[r].processed = KeptUpTo(inv[r].fs, Len(inv[r].fs))

\* C25, the case: the board listed three jobs; one create was refused, so the
\* feed failed and its summary was never added; another create of the feed
\* was applied; the run has returned with createdCount 0 and processed 0
\* while the created job is in the store.
C25_Witness ==
    \E r \in RunIds :
        /\ IsPoll(r) /\ inv[r].pc = "return"
        /\ fetchRuns[r].status = "done_with_errors"
        /\ fetchRuns[r].createdCount = 0
        /\ fetchRuns[r].processed = 0
        /\ Len(inv[r].fs[1].kept) >= 2
        /\ \E w \in CreatedBy(r) : inv[r].fs[w[2]].w[w[3]].docId \in StoredIds
        /\ \E w \in JobWrites : inv[r].fs[w[2]].w[w[3]].st = "failed"

\* C26: in the paged worker a create that meets an existing job document is
\* answered once and not sent again, adds nothing to the feed's new count,
\* raises no feed error, and the page task completes with the run record
\* brought up to date.
C26_ExistingDocIsDedup ==
    \A t \in DOMAIN tasks :
        /\ isAlreadyExistsError(inv[t].w.code) =>
              /\ inv[t].w.failedAttempts <= 1
              /\ inv[t].w.st = "exists"
        /\ inv[t].errorsCount = 0
        /\ inv[t].feedNewCount + inv[t].pageNewCount <= Len(PagedBoardJobs)
        /\ (tasks[t].st = "done" /\ tasks[t].runId = Null)
              => \E r \in DOMAIN fetchRuns :
                    /\ fetchRuns[r].exists
                    /\ fetchRuns[r].pagesDone = 1
                    /\ fetchRuns[r].errorsCount = 0

\* C26, the case: job 7 is stored already; its create has been answered
\* already-exists and sent again as often as the model follows it, and is
\* still awaited: the feed is not processed and the run record still shows no
\* page done.
C26_Witness ==
    \E t \in DOMAIN tasks :
        /\ tasks[t].st = "running"
        /\ inv[t].w.st = "queued" /\ inv[t].w.k = 1
        /\ inv[t].w.code = 6
        /\ inv[t].w.failedAttempts = MaxResends
        /\ inv[t].pageFeedsProcessed = 0
        /\ fetchRuns[inv[t].runId].pagesDone = 0

\* The feed documents of a user that are not switched off and have a url.
EligibleDocs(uid) ==
    {feedsCol[uid][i] : i \in {j \in DOMAIN feedsCol[uid] :
                                  /\ feedsCol[uid][j].active # "false"
                                  /\ feedsCol[uid][j].url # NoUrl}}

\* C27: the feeds an ingestion works on are exactly the user's feed documents
\* that are not switched off and have a url: they are the feedsCount of the
\* record, they alone are fetched, and every error sample, company document
\* and job document of the run belongs to one of them.
C27_OnlyEligibleFeedsTakePart ==
    \A r \in RunIds :
        (IsPoll(r) /\ inv[r].pc \notin {"idle", "load", "handlerCatch", "threw"}) =>
            LET el   == EligibleDocs(inv[r].uid)
                urls == {d.url : d \in el}
                keys == {feedCompanyKey(FeedOfDoc(d)) : d \in el}
            IN  /\ Len(inv[r].feeds) = Cardinality(el)
                /\ {inv[r].feeds[i].id : i \in DOMAIN inv[r].feeds} = {d.id : d \in el}
                /\ Len(inv[r].fs) <= Cardinality(el)
                /\ inv[r].pc # "markRunning" =>
                      /\ fetchRuns[r].feedsCount = Cardinality(el)
                      /\ Len(inv[r].fs) = Cardinality(el)
                /\ \A i \in DOMAIN inv[r].errorSamples : inv[r].errorSamples[i].url \in urls
                /\ \A i \in DOMAIN fetchRuns[r].errorSamples :
                      fetchRuns[r].errorSamples[i].url \in urls
                /\ \A c \in companies : c.uid = inv[r].uid => c.url \in urls
                /\ \A w \in JobWrites :
                      w[1] = r => inv[r].fs[w[2]].w[w[3]].data.companyKey \in keys
                /\ \A d \in jobs : (d.uid = inv[r].uid /\ d # OldDoc) => d.companyKey \in keys

\* C27, the case: the user has four feed documents, one switched off and one
\* without a url; the run has returned after working on the other two.
C27_Witness ==
    \E r \in RunIds :
        /\ IsPoll(r) /\ inv[r].pc = "return"
        /\ Len(feedsCol[inv[r].uid]) = 4
        /\ Cardinality(EligibleDocs(inv[r].uid)) = 2
        /\ fetchRuns[r].feedsCount = 2
        /\ \A i \in FeedIdx(r) : inv[r].fs[i].pc \in {"ok", "err"}
        /\ \E c \in companies : c.uid = inv[r].uid

\* The timestamp the window is stated on: updated_at, else first_published,
\* for greenhouse; publishedAt for ashby; none for any other source.
StatedTimestamp(source, jobRaw) ==
    IF source = "greenhouse"
    THEN IF jobRaw.updated_at.valid THEN jobRaw.updated_at ELSE jobRaw.first_published
    ELSE IF source = "ashby" THEN jobRaw.publishedAt
    ELSE NoIso

\* C28: isJobWithinUpdateWindow is true exactly when the source's timestamp
\* is a valid instant t with now - UPDATE_WINDOW_MS <= t <= now.
C28_WithinTrailingWindow ==
    resp # NoResp =>
        LET t == StatedTimestamp(inv.source, inv.jobRaw)
        IN  resp.result <=> (t.valid /\ now - UPDATE_WINDOW_MS <= t.ms /\ t.ms <= now)

\* C28, the case: a greenhouse job whose updated_at is after now has been
\* found within the window.
C28_Witness ==
    /\ resp # NoResp
    /\ inv.source = "greenhouse"
    /\ inv.jobRaw.updated_at = Iso(now + 1)
    /\ resp.result

\* C29: a job located "San Francisco, CA" is kept by the location filter; a
\* job located "London, United Kingdom" that does not say remote is dropped;
\* a job located "Remote - US" is kept whatever the exclusion list holds.
C29_LocationScenario ==
    resp # NoResp =>
        LET text == inv.jobRaw.location.text
        IN  /\ text = "San Francisco, CA" => (resp.kept /\ resp.pagedKept)
            /\ (text = "London, United Kingdom" /\ inv.jobRaw.isRemote # "true")
                  => (~resp.kept /\ ~resp.pagedKept)
            /\ text = "Remote - US" => (resp.kept /\ resp.pagedKept)

\* C29, the case: the filter of processOneFeed has dropped a job located
\* "San Francisco, CA" that the filter of the paged worker keeps.
C29_Witness ==
    /\ resp # NoResp
    /\ inv.jobRaw.location.text = "San Francisco, CA"
    /\ inv.exclude = REMOTE_EXCLUDE_SUBSTRINGS
    /\ ~resp.kept
    /\ resp.pagedKept

\* The city names and state codes that occur in a location text only inside
\* a longer word (CA in CANADA, NYC in PENNYCROSS).
EmbeddedNames(text) ==
    CASE text = "Toronto, Canada" -> {"CA", "OR"}
      [] text = "Pennycross, Plymouth" -> {"NYC", "MO", "NY", "UT"}
      [] text = "London, United Kingdom" -> {"IN", "ND"}
      [] text = "Bangalore, India" -> {"AL", "GA", "IN", "IA", "ND", "OR"}
      [] OTHER -> {}

\* C30: a location with a major US city as a whole token is a US location;
\* a location in which city names and state codes occur only inside longer
\* words, and which says US in no other way, is not.
C30_TokenBoundaries ==
    resp # NoResp =>
        LET loc   == inv.jobRaw.location
            names == PAGED_MAJOR_US_CITIES \cup PAGED_US_STATE_CODES
            emb   == EmbeddedNames(loc.text)
        IN  /\ (\E city \in PAGED_MAJOR_US_CITIES : city \in loc.tokens)
                  => (resp.isUS /\ resp.pagedKept)
            /\ (/\ emb # {}
                /\ loc.tokens \cap names = {}
                /\ ~loc.usWord
                /\ loc.upper \subseteq emb)
                  => (~resp.isUS /\ ~resp.pagedKept)

\* C30, the case: isUSLocation of index.js has found "Austin, Texas", where
\* AUSTIN stands as a whole token, not to be a US location.
C30_Witness ==
    /\ resp # NoResp
    /\ inv.jobRaw.location.text = "Austin, Texas"
    /\ "AUSTIN" \in inv.jobRaw.location.tokens
    /\ ~resp.isUS
    /\ resp.pagedKept

\* A value that is blank or empty.
MdBlank(value) ==
    \/ value.t \in {"null", "undefined"}
    \/ value.t = "string" /\ trim(value.str) = <<>>
    \/ value.t = "array" /\ value.arr = <<>>

\* The items of the input that have a name and a value that is not blank.
MdKeptIdx(items) == {i \in DOMAIN items : items[i].name # "" /\ ~MdBlank(items[i].value)}

\* C31: no entry of the output of normalizeMetadata has a blank or empty
\* value; every name of a named item with a non-blank value is in the output
\* with the value of the first such item, nothing else is; metadataKV and
\* metadataList hold the same names and values.
C31_MetadataNormalized ==
    resp # NoResp =>
        LET kv    == resp.result.metadataKV
            list  == resp.result.metadataList
            items == inv.items
            kept  == MdKeptIdx(items)
        IN  /\ \A i \in DOMAIN list : ~MdBlank(list[i].value)
            /\ \A n \in DOMAIN kv : ~MdBlank(kv[n])
            /\ DOMAIN kv = {items[i].name : i \in kept}
            /\ \A i \in kept :
                  (\A j \in kept : items[j].name = items[i].name => i <= j)
                     => kv[items[i].name] = NormalizedValue(items[i])
            /\ {list[i].name : i \in DOMAIN list} = DOMAIN kv
            /\ \A i \in DOMAIN list : kv[list[i].name] = list[i].value
            /\ \A i, j \in DOMAIN list : list[i].name = list[j].name => i = j

\* C31, the case: an item whose value is an array of one blank string has been
\* kept, and its value in the output is the empty array.
C31_Witness ==
    /\ resp # NoResp
    /\ Len(inv.items) = 1
    /\ inv.items[1].name = "a"
    /\ inv.items[1].value = MdValue("array", <<>>, <<<<" ">>>>)
    /\ "a" \in DOMAIN resp.result.metadataKV
    /\ resp.result.metadataKV["a"].arr = <<>>
    /\ Len(resp.result.metadataList) = 1

RECURSIVE PiecesLen(_)
PiecesLen(pieces) == IF pieces = <<>> THEN 0 ELSE Head(pieces).len + PiecesLen(Tail(pieces))

\* C32: the output of normalizeContentHtmlClean is at most MAX_HTML_CHARS
\* characters long and none of its anchors has a tracker domain in its href.
C32_ContentCappedAndClean ==
    resp # NoResp =>
        /\ PiecesLen(resp.result.pieces) <= MAX_HTML_CHARS
        /\ \A i \in DOMAIN resp.result.pieces :
              resp.result.pieces[i].kind = "a"
                 => HostIncludes(resp.result.pieces[i].host) = {}

\* C32, the case: the content was one anchor with an unquoted href to
\* click.appcast.io, and the output still holds that anchor.
C32_Witness ==
    /\ resp # NoResp
    /\ inv.pieces = <<HtmlAnchor("none", "click.appcast.io")>>
    /\ resp.result.pieces = <<HtmlAnchor("none", "click.appcast.io")>>

\* C33: two job writes of one user with different (companyKey, jobId) pairs
\* have different document ids, and a create is answered already-exists only
\* when the stored document is the same job.
C33_IdentityKeyInjective ==
    /\ \A w1, w2 \in JobWrites :
          LET a == inv[w1[1]].fs[w1[2]].w[w1[3]]
              b == inv[w2[1]].fs[w2[2]].w[w2[3]]
          IN  (inv[w1[1]].uid = inv[w2[1]].uid
                 /\ <<a.data.companyKey, a.data.jobId>> # <<b.data.companyKey, b.data.jobId>>)
                => a.docId # b.docId
    /\ \A w \in JobWrites :
          LET op == inv[w[1]].fs[w[2]].w[w[3]]
          IN  op.st = "exists" =>
                 \E d \in jobs : /\ d.uid = inv[w[1]].uid /\ d.docId = op.docId
                                 /\ d.companyKey = op.data.companyKey
                                 /\ d.jobId = op.data.jobId

\* C33, the case: job c__7 of board ab was stored as ab__c__7, and the create
\* of job 7 of board ab__c was answered already-exists; the run has returned
\* with one job created.
C33_Witness ==
    \E r \in RunIds :
        /\ inv[r].pc = "return"
        /\ Len(inv[r].fs) = 2
        /\ Len(inv[r].fs[1].w) = 1 /\ Len(inv[r].fs[2].w) = 1
        /\ inv[r].fs[1].w[1].st = "created"
        /\ inv[r].fs[1].w[1].data.companyKey = "ab" /\ inv[r].fs[1].w[1].data.jobId = "c__7"
        /\ inv[r].fs[2].w[1].st = "exists"
        /\ inv[r].fs[2].w[1].data.companyKey = "ab__c" /\ inv[r].fs[2].w[1].data.jobId = "7"
        /\ fetchRuns[r].createdCount = 1
        /\ fetchRuns[r].processed = 2

\* The company document that upsertCompanyDoc writes for a feed at this moment.
UpsertedDoc(uid, feed) ==
    [uid |-> uid, companyKey |-> feedCompanyKey(feed),
     companyName |-> IF feed.name # "" THEN feed.name ELSE feedCompanyKey(feed),
     lastSeenAt |-> now, url |-> feed.url, source |-> detectFeedSource(feed.url)]

\* C34: in the step in which processOneFeed ends for a feed, the company
\* document is upserted if and only if at least one raw job survived the
\* filters and every create of the feed was answered without a thrown error,
\* whether or not a job document was newly created; the companies are left as
\* they are otherwise.
C34_CompanyUpsertIffKeptAndWritten ==
    [][\A r \in DOMAIN inv :
         \A i \in 1..Len(inv[r].fs) :
            (/\ i <= Len(inv'[r].fs)
             /\ inv[r].fs[i].pc \in {"fetch", "writing"}
             /\ inv'[r].fs[i].pc \in {"ok", "err"})
            => IF /\ inv[r].fs[i].pc = "writing"
                  /\ Len(inv[r].fs[i].kept) > 0
                  /\ \A k \in 1..Len(inv[r].fs[i].w) :
                        inv[r].fs[i].w[k].st \in {"created", "exists"}
               THEN /\ UpsertedDoc(inv[r].uid, inv[r].feeds[i]) \in companies'
                    /\ inv'[r].fs[i].pc = "ok"
               ELSE companies' = companies]_vars

\* C34, the case: a feed whose only kept job existed already has ended with
\* its company document written, a feed without a surviving job and a feed
\* with a refused create have ended without one.
C34_Witness ==
    \E r \in DOMAIN inv :
        /\ Len(inv[r].fs) = 2
        /\ inv[r].fs[2].pc = "ok"
        /\ Len(inv[r].fs[2].w) = 1
        /\ inv[r].fs[2].w[1].st = "exists"
        /\ \E c \in companies : c.uid = inv[r].uid /\ c.companyKey = "ab__c"
        /\ inv[r].createdTotal = 1
C34_WitnessNoneKept ==
    \E r \in DOMAIN inv :
        /\ Len(inv[r].fs) = 2
        /\ inv[r].fs[1].pc = "ok" /\ Len(inv[r].fs[1].kept) = 0
        /\ inv[r].fs[2].pc = "err" /\ Len(inv[r].fs[2].kept) = 1
        /\ companies = {}

\* The run records and the enqueue attempts of user u.
RunsOf(u) == {r \in RunIds : fetchRuns[r].status # "absent" /\ fetchRuns[r].uid = u}
AttemptsOf(u) == {r \in RunIds : tasks[r].st # "none" /\ tasks[r].uid = u}

C36_NewCountIsCreatedTotal ==
    \A r \in DOMAIN fetchRuns :
        (fetchRuns[r].exists /\ fetchRuns[r].finishedAt # Null)
            => fetchRuns[r].newCount = Cardinality(jobs)

\* C36, the case: the page of twenty-one feeds has finished, its first feed
\* created three job documents before the heartbeat of the twentieth feed,
\* and the run record says six.
C36_Witness ==
    \E r \in DOMAIN fetchRuns :
        /\ fetchRuns[r].exists /\ fetchRuns[r].finishedAt # Null
        /\ fetchRuns[r].feedsProcessed = PAGED_PROGRESS_EVERY + 1
        /\ fetchRuns[r].pagesDone = 1
        /\ Cardinality(jobs) = 3
        /\ feedsCol["u2"][1].lastNewCount = 3
        /\ fetchRuns[r].newCount = 6

\* C37: the deleted counter on the record of a cleanup that has completed is
\* the number of distinct job documents the cleanup removed from the store
\* (the documents the store held at the start and holds no more: no other
\* writer is at work).
C37_DeletedIsRemovedCount ==
    \A r \in RunIds :
        (IsCleanupRun(r) /\ fetchRuns[r].status = "done")
            => fetchRuns[r].deleted = Cardinality(PurgeCountDocs \ jobs)

\* C37, the case: the cleanup read the full page a second time before the
\* writer had applied the deletes of the first; it is done, every expired job
\* is removed, and the record counts each of them twice.
C37_Witness ==
    \E r \in RunIds :
        /\ IsCleanupRun(r)
        /\ fetchRuns[r].status = "done"
        /\ jobs = {RetainedJob}
        /\ Cardinality(PurgeCountDocs \ jobs) = CLEANUP_QUERY_LIMIT
        /\ fetchRuns[r].deleted = 2 * CLEANUP_QUERY_LIMIT

\* C38: a run record in status enqueued eventually has one of the terminal
\* statuses done, done_with_errors, failed or enqueue_failed, given that the
\* queue delivers, every await is answered, and the platform may end an
\* invocation that outlives its time budget and redeliver it until it has
\* been attempted maxAttempts times.
C38_EnqueuedRunEnds ==
    \A r \in {1} : (fetchRuns[r].status = "enqueued") ~> (fetchRuns[r].status \in Terminal)

\* C38, the case: every one of the three attempts of the task was ended by
\* the platform after the record was marked running; the task is given up
\* and the record still says running.
C38_Witness ==
    /\ tasks[1].st = "dead"
    /\ tasks[1].attempts = TASK_MAX_ATTEMPTS
    /\ inv[1].pc = "idle"
    /\ fetchRuns[1].status = "running"
    /\ fetchRuns[1].finishedAt = Null

====
